---- MODULE Spec2Model ----
(***************************************************************************)
(* The paginated GraphQL aggregation of the GitHub plugin:                 *)
(*   PullRequestService.GetYourPrs      (graphql/pull_request.go)          *)
(*   IssueService.GetYourAssignment     (graphql/assignment.go)            *)
(*   Client.GetLHSData, getPRorIssue    (graphql/lhs_request.go)           *)
(* One behaviour is one aggregation call against a search API that answers *)
(* every round trip with an arbitrary page (or an error).                  *)
(*                                                                         *)
(* Go values are modelled as follows.  A string, URI or time is a tuple,   *)
(* the zero value being <<>>.  A pointer is a sequence: <<>> is nil and    *)
(* <<x>> points at x.  A slice is a sequence, nil being <<>>.  A pointer   *)
(* into a variable (the Login of a github.User) is a record naming the     *)
(* variable's cell in heap and the path of the field inside it.            *)
(***************************************************************************)
EXTENDS Integers, Sequences, FiniteSets, TLC

\* Largest number of pages the search API holds for one query.
MaxPages == 3

\* Sizes of the pages the search API answers GetYourPrs with.
PageSizes == {0, 1, 2}

\* What an assignment node carries: an issue, a pull request, or neither.
Kinds == {"issue", "pr", "none"}

\* The pages the search API answers GetYourAssignment with: the kinds of
\* their nodes, in order.
AssignmentShapes ==
    {<<>>, <<"issue">>, <<"pr">>, <<"none">>,
     <<"issue", "pr">>, <<"pr", "issue">>, <<"issue", "issue">>, <<"pr", "none">>}

\* The pages the search API answers one round trip of GetLHSData with: the
\* number of review requests, the kinds of the assignments, the number of
\* open pull requests.
LHSShapes ==
    {<<2, <<>>, 0>>, <<1, <<>>, 2>>, <<0, <<>>, 1>>,
     <<1, <<"issue">>, 1>>, <<2, <<"pr">>, 1>>, <<0, <<"none">>, 2>>,
     <<1, <<"issue", "pr">>, 0>>}

\* The organisations a client can be configured with ("" is none).
Orgs == {"", "acme"}

\* The organisation the client of the behaviours of Spec is configured with.
ConfiguredOrg == "acme"

\* The errors a round trip can fail with.
Errors == {"transport", "deadline exceeded"}

\* The three entry points.
Ops == {"GetYourPrs", "GetYourAssignment", "GetLHSData"}

\* The searches of GetLHSData's combined query, by their field of mainQuery.
LHSQueries == {"PullRequest", "Assignee", "OpenPullRequest"}

VARIABLES
    op,                   \* the entry point this behaviour calls
    org,                  \* client.org
    username,             \* client.username
    loopVarPerIteration,  \* Go's range-variable semantics of the build
    pc,                   \* "start", "loop", "returned", "failed", "panicked"
    local,                \* the locals of the running call
    mainQuery,            \* the package-level query struct of GetLHSData
    heap,                 \* the variables that WorkItems point into
    requests,             \* the params of every executeQuery call, in order
    responses,            \* what the search API answered, in order
    ret,                  \* the call's return values, once it has returned
    calls,                \* the GetLHSData calls that run concurrently
    kv,                   \* the plugin's key-value store (p.API.KV*)
    posts,                \* the direct messages the bot has posted, in order
    http,                 \* the HTTP requests being served: pc and locals
    clock,                \* model.GetMillis()
    github                \* GitHub's side: the issue the posts are about

\* The plugin state the handlers of api.go work on.
apiVars == <<kv, posts, http, clock, github>>

vars == <<op, org, username, loopVarPerIteration, pc, local, mainQuery, heap,
          requests, responses, ret, calls, kv, posts, http, clock, github>>

----------------------------------------------------------------------------
(* Query structs: assignment_query.go, the pull-request query, mainQuery.   *)

ZeroVariant ==
    [Number |-> 0, Repository |-> [URL |-> <<>>], URL |-> <<>>, Title |-> <<>>,
     CreatedAt |-> <<>>, UpdatedAt |-> <<>>, Author |-> [Login |-> <<>>]]

\* The populated issue or pull-request fragment of the node the API calls id.
Variant(tag, id) ==
    [Number |-> 10 * id[2] + id[3],
     Repository |-> [URL |-> <<"repo", tag, id>>],
     URL |-> <<"url", tag, id>>,
     Title |-> <<"title", tag, id>>,
     CreatedAt |-> <<"created", tag, id>>,
     UpdatedAt |-> <<"updated", tag, id>>,
     Author |-> [Login |-> <<"login", tag, id>>]]

prSearchNodes(id) == [PullRequest |-> Variant("pr", id)]

assignmentSearchNodes(kind, id) ==
    [Issue |-> IF kind = "issue" THEN Variant("issue", id) ELSE ZeroVariant,
     PullRequest |-> IF kind = "pr" THEN Variant("pr", id) ELSE ZeroVariant]

ZeroPage == [Nodes |-> <<>>, PageInfo |-> [EndCursor |-> <<>>, HasNextPage |-> FALSE]]

ZeroMainQuery == [PullRequest |-> ZeroPage, Assignee |-> ZeroPage, OpenPullRequest |-> ZeroPage]

\* githubv4.NewString
NewString(s) == <<s>>

----------------------------------------------------------------------------
(* The search API.  Page r of query q carries the cursor <<q, r>> and its   *)
(* k-th node is named <<q, r, k>>, so that a node or a cursor taken from    *)
(* another page or another query is told apart.                             *)

Round == Len(requests) + 1

\* Query q has already answered a page with hasNextPage = false.
Exhausted(q) ==
    \E i \in 1..Len(responses) :
        responses[i].err = <<>> /\ ~responses[i][q].PageInfo.HasNextPage

\* The API holds at most MaxPages pages of a query it has not yet finished.
HasNextChoices(q) == IF Round >= MaxPages /\ ~Exhausted(q) THEN {FALSE} ELSE BOOLEAN

PRPage(q, n, hn) ==
    [Nodes |-> [k \in 1..n |-> prSearchNodes(<<q, Round, k>>)],
     PageInfo |-> [EndCursor |-> <<q, Round>>, HasNextPage |-> hn]]

AssignmentPage(q, kinds, hn) ==
    [Nodes |-> [k \in 1..Len(kinds) |-> assignmentSearchNodes(kinds[k], <<q, Round, k>>)],
     PageInfo |-> [EndCursor |-> <<q, Round>>, HasNextPage |-> hn]]

----------------------------------------------------------------------------
(* WorkItems (github.Issue) and the variables their Login points into.      *)

\* The variable one iteration of `for _, resp := range nodes` binds resp to:
\* one per iteration, or one per execution of the for statement.
LoopVar(q, r, k) == IF loopVarPerIteration THEN <<q, r, k>> ELSE <<q, r, 0>>

\* &github.Issue{...} built from fragment v, its Login pointing at ptr.
NewIssue(v, ptr) ==
    [Number |-> v.Number, RepositoryURL |-> v.Repository.URL, Title |-> v.Title,
     CreatedAt |-> v.CreatedAt, UpdatedAt |-> v.UpdatedAt,
     User |-> [Login |-> ptr], HTMLURL |-> v.URL]

\* What the caller reads through a WorkItem when the heap is h.
Observe(h, item) ==
    [Number |-> item.Number, RepositoryURL |-> item.RepositoryURL, Title |-> item.Title,
     CreatedAt |-> item.CreatedAt, UpdatedAt |-> item.UpdatedAt,
     Login |-> h[item.User.Login.cell][item.User.Login.path].Author.Login,
     HTMLURL |-> item.HTMLURL]

ObserveAll(h, items) == [k \in 1..Len(items) |-> Observe(h, items[k])]

----------------------------------------------------------------------------
\* No concurrent call is running and no HTTP request is being served.
PluginIdle ==
    /\ calls = <<>>
    /\ kv = <<>>
    /\ posts = <<>>
    /\ http = <<>>
    /\ clock = 0
    /\ github = <<>>

Init ==
    /\ PluginIdle
    /\ op \in Ops
    /\ org = ConfiguredOrg
    /\ username = "alice"
    /\ loopVarPerIteration \in IF op = "GetLHSData" THEN {TRUE} ELSE BOOLEAN
    /\ pc = "start"
    /\ local = <<>>
    /\ mainQuery = ZeroMainQuery
    /\ heap = <<>>
    /\ requests = <<>>
    /\ responses = <<>>
    /\ ret = <<>>

\* A scoping that prefixes the organisation restriction a second time.
OrgScopedTwice(filter) ==
    IF org # "" THEN <<"org:" \o org, "org:" \o org>> \o filter ELSE filter

\* fmt.Sprintf("org:%s %s", org, filter): a filter is a sequence of terms.
OrgScoped(filter) == IF org # "" THEN <<"org:" \o org>> \o filter ELSE filter

----------------------------------------------------------------------------
(* PullRequestService.GetYourPrs                                            *)

GetYourPrsParams ==
    [prSearchQueryArg |-> OrgScoped(<<"author:" \o username, "is:pr", "is:OPEN", "archived:false">>),
     prsCursor |-> <<>>]

GetYourPrsStart ==
    /\ op = "GetYourPrs" /\ pc = "start"
    /\ local' = [params |-> GetYourPrsParams, query |-> ZeroPage, res |-> <<>>]
    /\ pc' = "loop"
    /\ UNCHANGED <<calls, apiVars, op, org, username, loopVarPerIteration, mainQuery, heap, requests, responses, ret>>

\* The body of `for _, resp := range query.Search.Nodes`, from node k on.
RECURSIVE PrsRange(_, _, _, _)
PrsRange(nodes, k, r, acc) ==
    IF k > Len(nodes) THEN acc
    ELSE LET cell == LoopVar("Search", r, k)
             h    == (cell :> nodes[k]) @@ acc.heap
             pr   == NewIssue(h[cell].PullRequest, [cell |-> cell, path |-> "PullRequest"])
         IN  PrsRange(nodes, k + 1, r, [heap |-> h, res |-> Append(acc.res, pr)])

\* A loop that rebuilds the filter for every further page.
AfterPageRescoping(l, page, cursor, res) ==
    IF ~page.PageInfo.HasNextPage
    THEN [pc |-> "returned", ret |-> [out |-> <<res>>, err |-> <<>>],
          local |-> [l EXCEPT !.query = page, !.res = res]]
    ELSE [pc |-> "loop", ret |-> <<>>,
          local |-> [l EXCEPT !.query = page, !.res = res,
                              !.params = [key \in DOMAIN l.params |->
                                             IF key = cursor
                                             THEN NewString(page.PageInfo.EndCursor)
                                             ELSE <<"org:" \o org>> \o l.params[key]]]]

\* What a single-query call does after its page loop.
AfterPage(l, page, cursor, res) ==
    IF ~page.PageInfo.HasNextPage
    THEN [pc |-> "returned", ret |-> [out |-> <<res>>, err |-> <<>>],
          local |-> [l EXCEPT !.query = page, !.res = res]]
    ELSE [pc |-> "loop", ret |-> <<>>,
          local |-> [l EXCEPT !.query = page, !.res = res,
                              !.params[cursor] = NewString(page.PageInfo.EndCursor)]]

\* A failure path that hands back what had been accumulated.
SingleFailureKeepingPartial(e) == [out |-> <<local.res>>, err |-> <<e>>]

\* return nil, err
SingleFailure(e) == [out |-> <<<<>>>>, err |-> <<e>>]

GetYourPrsFail(e) ==
    /\ requests' = Append(requests, local.params)
    /\ responses' = Append(responses, [err |-> <<e>>, Search |-> ZeroPage])
    /\ pc' = "failed"
    /\ ret' = SingleFailure(e)
    /\ UNCHANGED <<calls, apiVars, op, org, username, loopVarPerIteration, local, mainQuery, heap>>

GetYourPrsPage(page) ==
    LET acc  == PrsRange(page.Nodes, 1, Round, [heap |-> heap, res |-> local.res])
        next == AfterPage(local, page, "prsCursor", acc.res)
    IN  /\ requests' = Append(requests, local.params)
        /\ responses' = Append(responses, [err |-> <<>>, Search |-> page])
        /\ heap' = acc.heap
        /\ local' = next.local
        /\ pc' = next.pc
        /\ ret' = next.ret
        /\ UNCHANGED <<calls, apiVars, op, org, username, loopVarPerIteration, mainQuery>>

GetYourPrsRound ==
    /\ op = "GetYourPrs" /\ pc = "loop"
    /\ \/ \E e \in Errors : GetYourPrsFail(e)
       \/ \E n \in PageSizes, hn \in HasNextChoices("Search") :
              GetYourPrsPage(PRPage("Search", n, hn))

----------------------------------------------------------------------------
(* IssueService.GetYourAssignment                                           *)

GetYourAssignmentParams ==
    [assignmentSearchQueryArg |-> OrgScoped(<<"assignee:" \o username, "", "is:OPEN", "archived:false">>),
     assignmentCursor |-> <<>>]

GetYourAssignmentStart ==
    /\ op = "GetYourAssignment" /\ pc = "start"
    /\ local' = [params |-> GetYourAssignmentParams, query |-> ZeroPage, res |-> <<>>]
    /\ pc' = "loop"
    /\ UNCHANGED <<calls, apiVars, op, org, username, loopVarPerIteration, mainQuery, heap, requests, responses, ret>>

\* The if/else of the loop body: the WorkItem of the node held in variable cell.
AssignmentIssue(resp, cell) ==
    IF resp.Issue.Number # 0
    THEN NewIssue(resp.Issue, [cell |-> cell, path |-> "Issue"])
    ELSE NewIssue(resp.PullRequest, [cell |-> cell, path |-> "PullRequest"])

\* The body of `for _, resp := range query.Search.Nodes`, from node k on.
RECURSIVE AssignmentRange(_, _, _, _)
AssignmentRange(nodes, k, r, acc) ==
    IF k > Len(nodes) THEN acc
    ELSE LET cell == LoopVar("Search", r, k)
             h    == (cell :> nodes[k]) @@ acc.heap
             prOrIssue == AssignmentIssue(h[cell], cell)
         IN  AssignmentRange(nodes, k + 1, r, [heap |-> h, res |-> Append(acc.res, prOrIssue)])

GetYourAssignmentFail(e) ==
    /\ requests' = Append(requests, local.params)
    /\ responses' = Append(responses, [err |-> <<e>>, Search |-> ZeroPage])
    /\ pc' = "failed"
    /\ ret' = SingleFailure(e)
    /\ UNCHANGED <<calls, apiVars, op, org, username, loopVarPerIteration, local, mainQuery, heap>>

GetYourAssignmentPage(page) ==
    LET acc  == AssignmentRange(page.Nodes, 1, Round, [heap |-> heap, res |-> local.res])
        next == AfterPage(local, page, "assignmentCursor", acc.res)
    IN  /\ requests' = Append(requests, local.params)
        /\ responses' = Append(responses, [err |-> <<>>, Search |-> page])
        /\ heap' = acc.heap
        /\ local' = next.local
        /\ pc' = next.pc
        /\ ret' = next.ret
        /\ UNCHANGED <<calls, apiVars, op, org, username, loopVarPerIteration, mainQuery>>

GetYourAssignmentRound ==
    /\ op = "GetYourAssignment" /\ pc = "loop"
    /\ \/ \E e \in Errors : GetYourAssignmentFail(e)
       \/ \E kinds \in AssignmentShapes, hn \in HasNextChoices("Search") :
              GetYourAssignmentPage(AssignmentPage("Search", kinds, hn))

----------------------------------------------------------------------------
(* Client.GetLHSData and getPRorIssue                                       *)

GetLHSDataParams ==
    [prOpenQueryArg |-> OrgScoped(<<"author:" \o username, "is:pr", "is:OPEN", "archived:false">>),
     prReviewQueryArg |-> OrgScoped(<<"review-requested:" \o username, "is:pr", "is:OPEN", "archived:false">>),
     assigneeQueryArg |-> OrgScoped(<<"assignee:" \o username, "is:OPEN", "archived:false">>),
     reviewCursor |-> <<>>,
     assignmentsCursor |-> <<>>,
     openPrsCursor |-> <<>>]

GetLHSDataStart ==
    /\ op = "GetLHSData" /\ pc = "start"
    /\ local' = [params |-> GetLHSDataParams,
                 resultPR |-> <<>>, resultAssignee |-> <<>>, resultOpenPR |-> <<>>,
                 flagPR |-> FALSE, flagAssignee |-> FALSE, flagOpenPr |-> FALSE]
    /\ pc' = "loop"
    /\ UNCHANGED <<calls, apiVars, op, org, username, loopVarPerIteration, mainQuery, heap, requests, responses, ret>>

\* The locals and the params key each search of mainQuery is tied to.
ResultOf == [PullRequest |-> "resultPR", Assignee |-> "resultAssignee", OpenPullRequest |-> "resultOpenPR"]
FlagOf == [PullRequest |-> "flagPR", Assignee |-> "flagAssignee", OpenPullRequest |-> "flagOpenPr"]
\* The cursors of the two pull-request searches taken from each other's page.
CursorOfCrossed == [PullRequest |-> "openPrsCursor", Assignee |-> "assignmentsCursor", OpenPullRequest |-> "reviewCursor"]
CursorOf == [PullRequest |-> "reviewCursor", Assignee |-> "assignmentsCursor", OpenPullRequest |-> "openPrsCursor"]

\* getPRorIssue(prResp, assignmentResp), its local resp living in variable cell.
\* Its first statement reads prResp.PullRequest, whatever assignmentResp is.
getPRorIssue(prResp, assignmentResp, cell) ==
    IF prResp = <<>>
    THEN [panic |-> TRUE]
    ELSE LET resp == IF assignmentResp # <<>> /\ assignmentResp[1].Issue.Number = 0
                     THEN assignmentResp[1].PullRequest
                     ELSE prResp[1].PullRequest
         IN  [panic |-> FALSE, resp |-> resp,
              issue |-> NewIssue(resp, [cell |-> cell, path |-> "resp"])]

\* How the loop over the nodes of search q calls getPRorIssue for node.
CallGetPRorIssue(q, node, cell) ==
    IF q = "Assignee"
    THEN getPRorIssue(<<>>, <<node>>, cell)
    ELSE getPRorIssue(<<node>>, <<>>, cell)

\* A loop that puts each WorkItem in front of the ones collected before it.
RECURSIVE LHSRangeReversed(_, _, _, _, _)
LHSRangeReversed(q, nodes, k, r, acc) ==
    IF k > Len(nodes) \/ acc.panic THEN acc
    ELSE LET cell == <<q, r, k>>
             got  == CallGetPRorIssue(q, nodes[k], cell)
         IN  IF got.panic THEN [acc EXCEPT !.panic = TRUE]
             ELSE LHSRangeReversed(q, nodes, k + 1, r,
                      [heap |-> (cell :> [resp |-> got.resp]) @@ acc.heap,
                       res |-> <<got.issue>> \o acc.res, panic |-> FALSE])

\* The body of `for _, resp := range mainQuery.<q>.Nodes`, from node k on.
RECURSIVE LHSRange(_, _, _, _, _)
LHSRange(q, nodes, k, r, acc) ==
    IF k > Len(nodes) \/ acc.panic THEN acc
    ELSE LET cell == <<q, r, k>>
             got  == CallGetPRorIssue(q, nodes[k], cell)
         IN  IF got.panic
             THEN [acc EXCEPT !.panic = TRUE]
             ELSE LHSRange(q, nodes, k + 1, r,
                           [heap |-> (cell :> [resp |-> got.resp]) @@ acc.heap,
                            res |-> Append(acc.res, got.issue), panic |-> FALSE])

\* A block that runs whether or not its flag is set.
LHSBlockIgnoringFlag(q, mq, r, st) ==
    IF st.panic THEN st
    ELSE LET acc == LHSRange(q, mq[q].Nodes, 1, r,
                             [heap |-> st.heap, res |-> st.local[ResultOf[q]], panic |-> FALSE])
         IN  IF acc.panic
             THEN [local |-> [st.local EXCEPT ![ResultOf[q]] = acc.res],
                   heap |-> acc.heap, panic |-> TRUE]
             ELSE [local |-> [st.local EXCEPT
                                ![ResultOf[q]] = acc.res,
                                ![FlagOf[q]] = IF ~mq[q].PageInfo.HasNextPage THEN TRUE ELSE @,
                                !.params[CursorOf[q]] = NewString(mq[q].PageInfo.EndCursor)],
                   heap |-> acc.heap, panic |-> FALSE]

\* One `if !flag { ... }` block of the loop body, on the decoded mainQuery mq.
LHSBlock(q, mq, r, st) ==
    IF st.panic \/ st.local[FlagOf[q]] THEN st
    ELSE LET acc == LHSRange(q, mq[q].Nodes, 1, r,
                             [heap |-> st.heap, res |-> st.local[ResultOf[q]], panic |-> FALSE])
         IN  IF acc.panic
             THEN [local |-> [st.local EXCEPT ![ResultOf[q]] = acc.res],
                   heap |-> acc.heap, panic |-> TRUE]
             ELSE [local |-> [st.local EXCEPT
                                ![ResultOf[q]] = acc.res,
                                ![FlagOf[q]] = IF ~mq[q].PageInfo.HasNextPage THEN TRUE ELSE @,
                                !.params[CursorOf[q]] = NewString(mq[q].PageInfo.EndCursor)],
                   heap |-> acc.heap, panic |-> FALSE]

\* The loop body after executeQuery succeeded: the three blocks in order.
LHSBody(mq, r, st) ==
    LHSBlock("OpenPullRequest", mq, r, LHSBlock("Assignee", mq, r, LHSBlock("PullRequest", mq, r, st)))

\* return nil, nil, nil, err
LHSFailure(e) == [out |-> <<<<>>, <<>>, <<>>>>, err |-> <<e>>]

GetLHSDataFail(e) ==
    /\ requests' = Append(requests, local.params)
    /\ responses' = Append(responses, [err |-> <<e>>] @@ ZeroMainQuery)
    /\ pc' = "failed"
    /\ ret' = LHSFailure(e)
    /\ UNCHANGED <<calls, apiVars, op, org, username, loopVarPerIteration, local, mainQuery, heap>>

GetLHSDataPage(mq) ==
    LET st == LHSBody(mq, Round, [local |-> local, heap |-> heap, panic |-> FALSE])
        done == st.local.flagPR /\ st.local.flagAssignee /\ st.local.flagOpenPr
    IN  /\ requests' = Append(requests, local.params)
        /\ responses' = Append(responses, [err |-> <<>>] @@ mq)
        /\ mainQuery' = mq
        /\ heap' = st.heap
        /\ local' = st.local
        /\ pc' = IF st.panic THEN "panicked" ELSE IF done THEN "returned" ELSE "loop"
        /\ ret' = IF ~st.panic /\ done
                  THEN [out |-> <<st.local.resultPR, st.local.resultAssignee, st.local.resultOpenPR>>,
                        err |-> <<>>]
                  ELSE <<>>
        /\ UNCHANGED <<calls, apiVars, op, org, username, loopVarPerIteration>>

GetLHSDataRound ==
    /\ op = "GetLHSData" /\ pc = "loop"
    /\ \/ \E e \in Errors : GetLHSDataFail(e)
       \/ \E shape \in LHSShapes,
             hR \in HasNextChoices("PullRequest"), hA \in HasNextChoices("Assignee"),
             hO \in HasNextChoices("OpenPullRequest") :
              GetLHSDataPage([PullRequest |-> PRPage("PullRequest", shape[1], hR),
                              Assignee |-> AssignmentPage("Assignee", shape[2], hA),
                              OpenPullRequest |-> PRPage("OpenPullRequest", shape[3], hO)])

----------------------------------------------------------------------------
Next ==
    \/ GetYourPrsStart
    \/ GetYourPrsRound
    \/ GetYourAssignmentStart
    \/ GetYourAssignmentRound
    \/ GetLHSDataStart
    \/ GetLHSDataRound

Spec == Init /\ [][Next]_vars

\* A client configured with any organisation, or with none.
InitAnyOrg ==
    /\ PluginIdle
    /\ op \in Ops
    /\ org \in Orgs
    /\ username = "alice"
    /\ loopVarPerIteration \in IF op = "GetLHSData" THEN {TRUE} ELSE BOOLEAN
    /\ pc = "start"
    /\ local = <<>>
    /\ mainQuery = ZeroMainQuery
    /\ heap = <<>>
    /\ requests = <<>>
    /\ responses = <<>>
    /\ ret = <<>>

SpecAnyOrg == InitAnyOrg /\ [][Next]_vars

----------------------------------------------------------------------------
(* Concurrent calls of Client.GetLHSData.  The handlers of two requests run  *)
(* in two goroutines; every call has its own params, results and flags, but  *)
(* executeQuery decodes every call's response into the one package-level     *)
(* mainQuery, which the call then reads without synchronisation.  The steps  *)
(* of the calls interleave between the decoding and the reading.             *)

Callers == {"a", "b"}

\* What the API answers round r of call c with: the numbers of review
\* requests and of open pull requests (it holds no assignments).
ConcurrentShapes == {<<1, 0>>, <<2, 1>>}

\* Page r of query q of call c: its nodes <<q, r, k, c>> and its cursor
\* <<q, r, c>> carry the name of the call they were served to.
ConcurrentPage(c, q, r, n, hn) ==
    [Nodes |-> [k \in 1..n |-> prSearchNodes(<<q, r, k, c>>)],
     PageInfo |-> [EndCursor |-> <<q, r, c>>, HasNextPage |-> hn]]

InitConcurrent ==
    /\ op = "GetLHSData"
    /\ org = ConfiguredOrg
    /\ username = "alice"
    /\ loopVarPerIteration = TRUE
    /\ pc = "start"
    /\ local = <<>>
    /\ mainQuery = ZeroMainQuery
    /\ heap = <<>>
    /\ requests = <<>>
    /\ responses = <<>>
    /\ ret = <<>>
    /\ calls = [c \in Callers |->
                   [pc |-> "start", local |-> <<>>, requests |-> <<>>,
                    responses |-> <<>>, ret |-> <<>>]]
    /\ kv = <<>> /\ posts = <<>> /\ http = <<>> /\ clock = 0 /\ github = <<>>

\* lhs_request.go:21-37 in call c.
ConcurrentStart(c) ==
    /\ calls[c].pc = "start"
    /\ calls' = [calls EXCEPT ![c].pc = "loop",
                              ![c].local = [params |-> GetLHSDataParams,
                                            resultPR |-> <<>>, resultAssignee |-> <<>>,
                                            resultOpenPR |-> <<>>, flagPR |-> FALSE,
                                            flagAssignee |-> FALSE, flagOpenPr |-> FALSE]]
    /\ UNCHANGED <<apiVars, op, org, username, loopVarPerIteration, pc, local,
                   mainQuery, heap, requests, responses, ret>>

\* lhs_request.go:44-46 in call c: the round trip, decoded into mainQuery.
ConcurrentExecuteQuery(c) ==
    LET r == Len(calls[c].requests) + 1
    IN  /\ calls[c].pc = "loop"
        /\ r <= MaxPages
        /\ \/ \E e \in Errors :
                  /\ calls' = [calls EXCEPT
                         ![c].requests = Append(@, calls[c].local.params),
                         ![c].responses = Append(@, [err |-> <<e>>] @@ ZeroMainQuery),
                         ![c].pc = "failed",
                         ![c].ret = LHSFailure(e)]
                  /\ UNCHANGED mainQuery
           \/ \E shape \in ConcurrentShapes, hn \in (IF r >= MaxPages THEN {FALSE} ELSE BOOLEAN) :
                  LET mq == [PullRequest |-> ConcurrentPage(c, "PullRequest", r, shape[1], hn),
                             Assignee |-> ConcurrentPage(c, "Assignee", r, 0, FALSE),
                             OpenPullRequest |-> ConcurrentPage(c, "OpenPullRequest", r, shape[2], FALSE)]
                  IN  /\ calls' = [calls EXCEPT
                             ![c].requests = Append(@, calls[c].local.params),
                             ![c].responses = Append(@, [err |-> <<>>] @@ mq),
                             ![c].pc = "decoded"]
                      /\ mainQuery' = mq
        /\ UNCHANGED <<apiVars, op, org, username, loopVarPerIteration, pc, local,
                       heap, requests, responses, ret>>

\* lhs_request.go:48-88 (and :40-42, :91) in call c: the three blocks read
\* whatever mainQuery holds by now.
ConcurrentProcessPage(c) ==
    LET st   == LHSBody(mainQuery, <<c, Len(calls[c].requests)>>,
                        [local |-> calls[c].local, heap |-> heap, panic |-> FALSE])
        done == st.local.flagPR /\ st.local.flagAssignee /\ st.local.flagOpenPr
    IN  /\ calls[c].pc = "decoded"
        /\ heap' = st.heap
        /\ calls' = [calls EXCEPT
               ![c].local = st.local,
               ![c].pc = IF st.panic THEN "panicked" ELSE IF done THEN "returned" ELSE "loop",
               ![c].ret = IF ~st.panic /\ done
                          THEN [out |-> <<st.local.resultPR, st.local.resultAssignee,
                                          st.local.resultOpenPR>>, err |-> <<>>]
                          ELSE <<>>]
        /\ UNCHANGED <<apiVars, op, org, username, loopVarPerIteration, pc, local,
                       mainQuery, requests, responses, ret>>

NextConcurrent ==
    \E c \in Callers :
        \/ ConcurrentStart(c)
        \/ ConcurrentExecuteQuery(c)
        \/ ConcurrentProcessPage(c)

SpecConcurrent == InitConcurrent /\ [][NextConcurrent]_vars

----------------------------------------------------------------------------
(* The HTTP handlers of api.go.  While they are served no aggregation call   *)
(* of the sections above is running.                                         *)

aggVars == <<op, org, username, loopVarPerIteration, pc, local, mainQuery, heap,
             requests, responses, ret, calls>>

AggregationIdle ==
    /\ op = "none"
    /\ org = ConfiguredOrg
    /\ username = "alice"
    /\ loopVarPerIteration = TRUE
    /\ pc = "idle"
    /\ local = <<>>
    /\ mainQuery = ZeroMainQuery
    /\ heap = <<>>
    /\ requests = <<>>
    /\ responses = <<>>
    /\ ret = <<>>
    /\ calls = <<>>

----------------------------------------------------------------------------
(* Plugin.getPrsDetails: one POST /prsdetails.  http holds the handler's pc  *)
(* and locals, the goroutines it started, and the response it wrote.         *)

\* Largest number of pull requests a request lists.
MaxPRs == 3

\* The pull requests a request can list: {url, number} objects.
PRItems == {[URL |-> <<"pr", j>>, Number |-> j] : j \in {1, 2}}

\* The request bodies: not JSON, or the JSON of a list of pull requests.
PRLists == UNION {[1..n -> PRItems] : n \in 0..MaxPRs}
Bodies == {[json |-> FALSE, list |-> <<>>]} \cup {[json |-> TRUE, list |-> l] : l \in PRLists}

\* What the two fetches of fetchPRDetails can come back with: both failed,
\* or both succeeded.
FetchOutcomes ==
    {[Status |-> <<>>, Mergeable |-> FALSE, RequestedReviewers |-> <<>>, Reviews |-> <<>>],
     [Status |-> <<"success">>, Mergeable |-> TRUE, RequestedReviewers |-> <<"bob">>,
      Reviews |-> <<"APPROVED">>]}

\* &PRDetails{URL: prURL, Number: prNumber, ...}
fetchPRDetails(prURL, prNumber, fetched) ==
    [URL |-> prURL, Number |-> prNumber, Status |-> fetched.Status,
     Mergeable |-> fetched.Mergeable, RequestedReviewers |-> fetched.RequestedReviewers,
     Reviews |-> fetched.Reviews]

\* A goroutine that puts its detail in the first free place.
StoreDetailInFirstFree(prDetails, i, prDetail) ==
    LET free == {j \in 1..Len(prDetails) : prDetails[j] = <<>>}
        j    == CHOOSE j \in free : \A l \in free : j <= l
    IN  [prDetails EXCEPT ![j] = <<prDetail>>]

\* prDetails[i] = prDetail
StoreDetail(prDetails, i, prDetail) == [prDetails EXCEPT ![i] = <<prDetail>>]

InitPrsDetails ==
    /\ AggregationIdle
    /\ kv = <<>> /\ posts = <<>> /\ clock = 0 /\ github = <<>>
    /\ \E body \in Bodies :
           http = [pc |-> "start", body |-> body, prList |-> <<>>, prDetails |-> <<>>,
                   i |-> 0, wg |-> 0, go |-> <<>>, fetches |-> <<>>, finished |-> <<>>,
                   response |-> <<>>]

\* api.go:808-815: decode the body, make the result slice.
GetPrsDetailsDecode ==
    /\ http.pc = "start"
    /\ IF ~http.body.json
       THEN http' = [http EXCEPT !.pc = "done",
                                 !.response = <<[StatusCode |-> 400]>>]
       ELSE http' = [http EXCEPT !.pc = IF Len(http.body.list) = 0 THEN "wait" ELSE "range",
                                 !.prList = http.body.list,
                                 !.prDetails = [j \in 1..Len(http.body.list) |-> <<>>],
                                 !.go = [j \in 1..Len(http.body.list) |-> [pc |-> "unborn", i |-> 0, pr |-> <<>>, prDetail |-> <<>>]],
                                 !.i = 1]
    /\ UNCHANGED <<github, aggVars, kv, posts, clock>>

\* api.go:817-826: one iteration: copy i and pr, wg.Add(1), start the goroutine.
GetPrsDetailsGo ==
    /\ http.pc = "range"
    /\ http' = [http EXCEPT !.wg = @ + 1,
                            !.go[http.i] = [pc |-> "started", i |-> http.i,
                                            pr |-> http.prList[http.i], prDetail |-> <<>>],
                            !.i = @ + 1,
                            !.pc = IF http.i = Len(http.prList) THEN "wait" ELSE "range"]
    /\ UNCHANGED <<github, aggVars, kv, posts, clock>>

\* api.go:823: goroutine g calls fetchPRDetails with its pr.
GoroutineFetch(g) ==
    /\ g \in DOMAIN http.go
    /\ http.go[g].pc = "started"
    /\ \E fetched \in FetchOutcomes :
           http' = [http EXCEPT
               !.go[g].pc = "fetched",
               !.go[g].prDetail = fetchPRDetails(http.go[g].pr.URL, http.go[g].pr.Number, fetched),
               !.fetches = Append(@, [URL |-> http.go[g].pr.URL, Number |-> http.go[g].pr.Number])]
    /\ UNCHANGED <<github, aggVars, kv, posts, clock>>

\* api.go:822, 824: goroutine g stores its detail; the deferred wg.Done().
GoroutineStore(g) ==
    /\ g \in DOMAIN http.go
    /\ http.go[g].pc = "fetched"
    /\ http' = [http EXCEPT
           !.prDetails = StoreDetail(@, http.go[g].i, http.go[g].prDetail),
           !.wg = @ - 1,
           !.go[g].pc = "done",
           !.finished = Append(@, g)]
    /\ UNCHANGED <<github, aggVars, kv, posts, clock>>

\* api.go:828-830: wg.Wait() returns, the details are written.
GetPrsDetailsWrite ==
    /\ http.pc = "wait"
    /\ http.wg = 0
    /\ http' = [http EXCEPT !.pc = "done",
                            !.response = <<[StatusCode |-> 200, prDetails |-> http.prDetails]>>]
    /\ UNCHANGED <<github, aggVars, kv, posts, clock>>

NextPrsDetails ==
    \/ GetPrsDetailsDecode
    \/ GetPrsDetailsGo
    \/ \E g \in 1..MaxPRs : GoroutineFetch(g)
    \/ \E g \in 1..MaxPRs : GoroutineStore(g)
    \/ GetPrsDetailsWrite

SpecPrsDetails == InitPrsDetails /\ [][NextPrsDetails]_vars

----------------------------------------------------------------------------
(* Plugin.fetchPRDetails: one call, with its two goroutines.  Here a slice   *)
(* keeps the difference between nil and empty: <<>> is the nil slice and     *)
(* <<s>> the non-nil slice of the elements of s.  http holds the call's      *)
(* locals, its wait group, the goroutines' positions, the warnings logged    *)
(* and the value returned.                                                   *)

\* []*string{} and []*github.PullRequestReview{}
EmptySlice == <<<<>>>>

\* What PullRequests.ListReviews answers: an error, or the reviews GitHub
\* holds (a JSON array, so never a nil slice).
ListReviewsOutcomes ==
    {[err |-> TRUE, reviews |-> <<>>]}
        \cup {[err |-> FALSE, reviews |-> <<l>>] :
                  l \in {<<>>, <<"APPROVED">>, <<"CHANGES_REQUESTED", "APPROVED">>}}

\* What PullRequests.Get answers: an error, or the pull request.
PullRequestsGetOutcomes ==
    {[err |-> TRUE, Mergeable |-> FALSE, RequestedReviewers |-> <<>>]}
        \cup {[err |-> FALSE, Mergeable |-> m, RequestedReviewers |-> l] :
                  m \in BOOLEAN, l \in {<<>>, <<"bob">>, <<"bob", "carol">>}}

\* What Repositories.GetCombinedStatus answers: an error, or the state.
CombinedStatusOutcomes ==
    {[err |-> TRUE, State |-> <<>>]}
        \cup {[err |-> FALSE, State |-> <<s>>] : s \in {"success", "pending", "failure"}}

\* fetchReviews: the list, or an empty list with the wrapped error.
fetchReviews(listed) ==
    IF listed.err THEN [reviewsList |-> EmptySlice, err |-> TRUE]
                  ELSE [reviewsList |-> listed.reviews, err |-> FALSE]

\* append(requestedReviewers, v.Login) for every v of the pull request.
AppendLogins(requestedReviewers, reviewers) ==
    IF requestedReviewers = <<>> THEN (IF reviewers = <<>> THEN <<>> ELSE <<reviewers>>)
                                 ELSE <<requestedReviewers[1] \o reviewers>>

\* A wg.Wait() that returns when one goroutine has still to finish.
WaitReturnsBeforeLast(wg) == wg <= 1

\* wg.Wait() returns when the counter is zero.
WaitReturns(wg) == wg = 0

InitFetchPRDetails ==
    /\ AggregationIdle
    /\ kv = <<>> /\ posts = <<>> /\ clock = 0 /\ github = <<>>
    /\ \E pr \in PRItems :
           http = [pc |-> "start", prURL |-> pr.URL, prNumber |-> pr.Number,
                   status |-> <<>>, mergeable |-> FALSE,
                   requestedReviewers |-> <<>>, reviewsList |-> <<>>,
                   wg |-> 0, reviews |-> "unborn", pr |-> "unborn",
                   log |-> {}, ret |-> <<>>]

\* api.go:834-858: the locals, wg.Add(1) and go, twice.
FetchPRDetailsStart ==
    /\ http.pc = "start"
    /\ http' = [http EXCEPT !.pc = "wait",
                            !.requestedReviewers = EmptySlice,
                            !.reviewsList = EmptySlice,
                            !.wg = 2, !.reviews = "started", !.pr = "started"]
    /\ UNCHANGED <<github, aggVars, kv, posts, clock>>

\* api.go:846-854: the goroutine that fetches the reviews.
FetchReviewsGoroutine ==
    /\ http.reviews = "started"
    /\ \E listed \in ListReviewsOutcomes :
           LET fetched == fetchReviews(listed)
           IN  IF fetched.err
               THEN http' = [http EXCEPT
                        !.log = @ \cup {"Failed to fetch reviews for PR details"},
                        !.reviews = "done", !.wg = @ - 1]
               ELSE http' = [http EXCEPT
                        !.reviewsList = fetched.reviewsList,
                        !.reviews = "done", !.wg = @ - 1]
    /\ UNCHANGED <<github, aggVars, kv, posts, clock>>

\* api.go:858-870: the other goroutine gets the pull request, takes its
\* mergeable flag and the logins of its requested reviewers.
FetchPullRequestGoroutine ==
    /\ http.pr = "started"
    /\ \E prInfo \in PullRequestsGetOutcomes :
           IF prInfo.err
           THEN http' = [http EXCEPT
                    !.log = @ \cup {"Failed to fetch PR for PR details"},
                    !.pr = "done", !.wg = @ - 1]
           ELSE http' = [http EXCEPT
                    !.mergeable = prInfo.Mergeable,
                    !.requestedReviewers = AppendLogins(@, prInfo.RequestedReviewers),
                    !.pr = "got"]
    /\ UNCHANGED <<github, aggVars, kv, posts, clock>>

\* api.go:871-877: it then gets the combined status of the head commit.
FetchCombinedStatusGoroutine ==
    /\ http.pr = "got"
    /\ \E statuses \in CombinedStatusOutcomes :
           IF statuses.err
           THEN http' = [http EXCEPT
                    !.log = @ \cup {"Failed to fetch combined status"},
                    !.pr = "done", !.wg = @ - 1]
           ELSE http' = [http EXCEPT
                    !.status = statuses.State,
                    !.pr = "done", !.wg = @ - 1]
    /\ UNCHANGED <<github, aggVars, kv, posts, clock>>

\* api.go:879-887: wg.Wait() returns, the record is built from the locals.
FetchPRDetailsReturn ==
    /\ http.pc = "wait"
    /\ WaitReturns(http.wg)
    /\ http' = [http EXCEPT
           !.pc = "returned",
           !.ret = <<[URL |-> http.prURL, Number |-> http.prNumber,
                      Status |-> http.status, Mergeable |-> http.mergeable,
                      RequestedReviewers |-> http.requestedReviewers,
                      Reviews |-> http.reviewsList]>>]
    /\ UNCHANGED <<github, aggVars, kv, posts, clock>>

NextFetchPRDetails ==
    \/ FetchPRDetailsStart
    \/ FetchReviewsGoroutine
    \/ FetchPullRequestGoroutine
    \/ FetchCombinedStatusGoroutine
    \/ FetchPRDetailsReturn

SpecFetchPRDetails == InitFetchPRDetails /\ [][NextFetchPRDetails]_vars

----------------------------------------------------------------------------
(* OAuth: Plugin.connectUserToGitHub and Plugin.completeConnectUserToGitHub. *)
(* http is the sequence of the requests that arrived, each with its          *)
(* handler's pc and locals; requests are served concurrently and interleave  *)
(* between their calls of the key-value store.                               *)

\* Largest number of /oauth/complete requests.
MaxCompletes == 2

\* The Mattermost users (the Mattermost-User-ID header of a request).
Users == {"u1", "u2"}

\* The state tokens model.NewId() hands out, and what a request can carry as
\* its state parameter.
Tokens == {"t1"}
StateParams == Tokens \cup {"forged"}

\* What a request can carry as its code parameter.
Codes == {"", "code"}

\* p.API.KVGet, KVSet, KVDelete on the store s; nil is <<>>.
KVGet(s, key) == IF key \in DOMAIN s THEN <<s[key]>> ELSE <<>>
KVSet(s, key, value) == (key :> value) @@ s
KVDelete(s, key) == [k \in DOMAIN s \ {key} |-> s[k]]

\* githubOauthKey + token
OAuthKey(token) == <<"githubOauthKey", token>>

\* The key storeGitHubUserInfo keeps the record of a user under.
UserInfoKey(userID) == <<userID, "githubTokenKey">>

\* storeGitHubUserInfo(info)
storeGitHubUserInfo(s, info) == KVSet(s, UserInfoKey(info.UserID), info)

\* The tokens handed out so far.
IssuedTokens == {http[r].state.Token : r \in {r \in 1..Len(http) : http[r].handler = "connect"}}

InitOAuth ==
    /\ AggregationIdle
    /\ github = <<>>
    /\ kv = <<>>
    /\ posts = <<>>
    /\ http = <<>>
    /\ clock = 0

\* The goroutine connectUserToGitHub starts (api.go:400-425) and the channel
\* ch it waits on: where it is, when its context was made, the completion
\* events waiting in ch (a nil error is <<>>), whether it received one or
\* timed out, its errorMsg and the direct message it asked for.  No such
\* goroutine exists for a request that returned before line 398.
NoWaiter ==
    [pc |-> "none", createdAt |-> 0, ch |-> <<>>, received |-> <<>>, timedOut |-> FALSE,
     errorMsg |-> <<>>, dm |-> <<>>]

\* api.go:369-428, GET /oauth/connect of user u.
ConnectUserToGitHub(u, privateAllowed) ==
    \E token \in Tokens \ IssuedTokens :
        LET state == [UserID |-> u, Token |-> token, PrivateAllowed |-> privateAllowed]
        IN  \/ /\ kv' = KVSet(kv, OAuthKey(state.Token), state)
               /\ http' = Append(http, [handler |-> "connect", UserID |-> u, pc |-> "done",
                                        state |-> state, subscribed |-> TRUE,
                                        waiter |-> [NoWaiter EXCEPT !.pc = "started"],
                                        StatusCode |-> 302])
               /\ UNCHANGED <<github, aggVars, posts, clock>>
            \/ /\ http' = Append(http, [handler |-> "connect", UserID |-> u, pc |-> "done",
                                        state |-> state, subscribed |-> FALSE,
                                        waiter |-> NoWaiter,
                                        StatusCode |-> 400])
               /\ UNCHANGED <<github, aggVars, kv, posts, clock>>

\* The stored state expires TokenTTL seconds after KVSetWithExpiry.
ExpireState(token) ==
    /\ OAuthKey(token) \in DOMAIN kv
    /\ kv' = KVDelete(kv, OAuthKey(token))
    /\ UNCHANGED <<github, aggVars, posts, http, clock>>

\* A handler whose deferred call took rErr's value when the defer statement
\* ran: it always publishes a nil error.
EndedPublishingNil(req, rErr, status) ==
    [req EXCEPT !.pc = "done", !.rErr = rErr, !.StatusCode = status,
                !.published = <<[UserID |-> req.UserID, err |-> <<>>]>>]

\* A request of completeConnectUserToGitHub that has ended with rErr: the
\* deferred publishOAuthComplete(c.UserID, rErr, false) has run.
Ended(req, rErr, status) ==
    [req EXCEPT !.pc = "done", !.rErr = rErr, !.StatusCode = status,
                !.published = <<[UserID |-> req.UserID, err |-> rErr]>>]

\* A handler that lets any user complete with the state it finds.
SameUserOrNot(state, userID) == state.UserID \in Users

\* api.go:476: state.UserID != c.UserID
SameUser(state, userID) == state.UserID = userID

\* api.go:430-459, GET /oauth/complete of user u arrives: the code check, the
\* KVGet of the stored state and its unmarshalling.
CompleteGet(u, code, stateToken) ==
    LET req == [handler |-> "complete", UserID |-> u, pc |-> "get", code |-> code,
                stateToken |-> stateToken, state |-> <<>>, tok |-> <<>>, gitUser |-> <<>>,
                rErr |-> <<>>, StatusCode |-> 0, published |-> <<>>, stored |-> FALSE]
        storedState == KVGet(kv, OAuthKey(stateToken))
    IN  /\ Cardinality({r \in 1..Len(http) : http[r].handler = "complete"}) < MaxCompletes
        /\ \/ /\ code = ""
              /\ http' = Append(http, Ended(req, <<"missing authorization code">>, 400))
           \/ /\ code # ""
              /\ http' = Append(http, Ended(req, <<"missing stored state">>, 400))
           \/ /\ code # "" /\ storedState = <<>>
              /\ http' = Append(http, Ended(req, <<"json unmarshal failed">>, 400))
           \/ /\ code # "" /\ storedState # <<>>
              /\ http' = Append(http, [req EXCEPT !.pc = "delete", !.state = storedState])
        /\ UNCHANGED <<github, aggVars, kv, posts, clock>>

\* api.go:461-480: the KVDelete of the stored state, then the token and user
\* checks.
CompleteDelete(r) ==
    /\ r \in 1..Len(http) /\ http[r].handler = "complete" /\ http[r].pc = "delete"
    /\ \/ /\ http' = [http EXCEPT ![r] = Ended(@, <<"error deleting stored state">>, 400)]
          /\ UNCHANGED kv
       \/ /\ kv' = KVDelete(kv, OAuthKey(http[r].stateToken))
          /\ http' = [http EXCEPT ![r] =
                 IF http[r].state[1].Token # http[r].stateToken
                 THEN Ended(@, <<"invalid state token">>, 400)
                 ELSE IF ~SameUser(http[r].state[1], http[r].UserID)
                 THEN Ended(@, <<"not authorized, incorrect user">>, 401)
                 ELSE [@ EXCEPT !.pc = "exchange"]]
    /\ UNCHANGED <<github, aggVars, posts, clock>>

\* api.go:482-504: conf.Exchange(ctx, code), githubClient.Users.Get(ctx, "").
CompleteExchange(r) ==
    /\ r \in 1..Len(http) /\ http[r].handler = "complete" /\ http[r].pc = "exchange"
    /\ \/ http' = [http EXCEPT ![r] = Ended(@, <<"Failed to exchange oauth code into token">>, 500)]
       \/ http' = [http EXCEPT ![r] = Ended([@ EXCEPT !.tok = <<<<"token", http[r].code>>>>],
                                            <<"failed to get authenticated GitHub user">>, 500)]
       \/ http' = [http EXCEPT ![r] = [@ EXCEPT !.pc = "store",
                                                !.tok = <<<<"token", http[r].code>>>>,
                                                !.gitUser = <<[Login |-> "octocat"]>>]]
    /\ UNCHANGED <<github, aggVars, kv, posts, clock>>

\* api.go:506-518
NewUserInfo(req) ==
    [UserID |-> req.state[1].UserID, Token |-> req.tok, GitHubUsername |-> req.gitUser[1].Login,
     LastToDoPostAt |-> clock,
     Settings |-> [SidebarButtons |-> "team", DailyReminder |-> TRUE, Notifications |-> TRUE],
     AllowedPrivateRepos |-> req.state[1].PrivateAllowed, MM34646ResetTokenDone |-> TRUE]

\* api.go:506-612: build the user info and store it; on success the welcome
\* message (unless the setup wizard takes over), the websocket event and the
\* closing page.
CompleteStore(r) ==
    /\ r \in 1..Len(http) /\ http[r].handler = "complete" /\ http[r].pc = "store"
    /\ \/ /\ http' = [http EXCEPT ![r] = Ended(@, <<"Unable to connect user to GitHub">>, 500)]
          /\ UNCHANGED <<kv, posts>>
       \/ /\ kv' = storeGitHubUserInfo(kv, NewUserInfo(http[r]))
          /\ http' = [http EXCEPT ![r] = Ended([@ EXCEPT !.stored = TRUE], <<>>, 200)]
          /\ \/ posts' = Append(posts, [UserID |-> http[r].state[1].UserID,
                                        type |-> "custom_git_welcome"])
             \/ UNCHANGED posts
    /\ UNCHANGED <<github, aggVars, clock>>

NextOAuth ==
    \/ \E u \in Users, privateAllowed \in BOOLEAN : ConnectUserToGitHub(u, privateAllowed)
    \/ \E token \in Tokens : ExpireState(token)
    \/ \E u \in Users, code \in Codes, stateToken \in StateParams : CompleteGet(u, code, stateToken)
    \/ \E r \in 1..MaxCompletes + Cardinality(Tokens) : CompleteDelete(r)
    \/ \E r \in 1..MaxCompletes + Cardinality(Tokens) : CompleteExchange(r)
    \/ \E r \in 1..MaxCompletes + Cardinality(Tokens) : CompleteStore(r)

SpecOAuth == InitOAuth /\ [][NextOAuth]_vars

----------------------------------------------------------------------------
(* The goroutine of connectUserToGitHub that waits for the completion of    *)
(* the OAuth flow.  The clock is in milliseconds.  Time goes on while a     *)
(* goroutine waits, the scheduler lets every goroutine that can step do so.  *)

\* Largest number of steps of the clock while no goroutine is waiting.
MaxWaitTicks == 2

\* One step of the clock.
WaitTickMillis == 15000

\* context.WithTimeout(context.Background(), 45*time.Second)
OAuthWaitMillis == 45000

\* The errors completeConnectUserToGitHub can publish; <<>> is nil.
CompletionErrors ==
    {<<>>, <<"missing authorization code">>, <<"not authorized, incorrect user">>}

\* "Timed out waiting for OAuth connection. Please check if the SiteURL is correct."
TimedOutMsg == <<"Timed out waiting for OAuth connection">>

\* The requests of /oauth/connect whose goroutine is at position p.
WaitersAt(p) ==
    {r \in 1..Len(http) : http[r].handler = "connect" /\ http[r].waiter.pc = p}

\* <-ctx.Done() can be received: the deadline of the context has passed.
ContextDone(now, createdAt) == now >= createdAt + OAuthWaitMillis

\* if err != nil { errorMsg = err.Error() }: errorMsg after an event was
\* received.  An error is modelled by its message.
ErrorMsgOf(err) == IF err # <<>> THEN <<err[1]>> ELSE <<>>

\* A goroutine that sends the direct message for the timeout only.
NeedsDMOnTimeoutOnly(errorMsg) == errorMsg = TimedOutMsg

\* api.go:414: if errorMsg != ""
NeedsDM(errorMsg) == errorMsg # <<>>

\* Time goes on.
WaiterTick ==
    /\ \/ clock < MaxWaitTicks * WaitTickMillis
       \/ \E r \in WaitersAt("select") :
              ~ContextDone(clock, http[r].waiter.createdAt)
    /\ clock' = clock + WaitTickMillis
    /\ UNCHANGED <<github, aggVars, kv, posts, http>>

\* api.go:401: the goroutine starts to run and makes its context.
WaiterContext(r) ==
    /\ r \in WaitersAt("started")
    /\ http' = [http EXCEPT ![r].waiter.pc = "select", ![r].waiter.createdAt = clock]
    /\ UNCHANGED <<github, aggVars, kv, posts, clock>>

\* api.go:433: a completion event for the user of request r is sent on the
\* channel r subscribed, unless an event is waiting there.
ChannelSend(r, err) ==
    /\ r \in 1..Len(http) /\ http[r].handler = "connect"
    /\ http[r].subscribed
    /\ http[r].waiter.ch = <<>>
    /\ http' = [http EXCEPT ![r].waiter.ch = <<err>>]
    /\ UNCHANGED <<github, aggVars, kv, posts, clock>>

\* api.go:404-412: the select.  It takes an event from ch, or the end of the
\* context; when both are there, either.
WaiterSelect(r) ==
    /\ r \in WaitersAt("select")
    /\ \/ /\ http[r].waiter.ch # <<>>
          /\ http' = [http EXCEPT
                 ![r].waiter.pc = "selected",
                 ![r].waiter.received = <<http[r].waiter.ch[1]>>,
                 ![r].waiter.ch = <<>>,
                 ![r].waiter.errorMsg = ErrorMsgOf(http[r].waiter.ch[1])]
       \/ /\ ContextDone(clock, http[r].waiter.createdAt)
          /\ http' = [http EXCEPT
                 ![r].waiter.pc = "selected",
                 ![r].waiter.timedOut = TRUE,
                 ![r].waiter.errorMsg = TimedOutMsg]
    /\ UNCHANGED <<github, aggVars, kv, posts, clock>>

\* api.go:414-424: with an errorMsg the direct message (which may fail to be
\* posted), then UnsubscribeOAuthComplete.
WaiterFinish(r) ==
    /\ r \in WaitersAt("selected")
    /\ IF NeedsDM(http[r].waiter.errorMsg)
       THEN /\ http' = [http EXCEPT ![r].waiter.pc = "done",
                                    ![r].waiter.dm = <<http[r].waiter.errorMsg>>,
                                    ![r].subscribed = FALSE]
            /\ \/ posts' = Append(posts, [UserID |-> http[r].UserID,
                                          type |-> "error connecting",
                                          errorMsg |-> http[r].waiter.errorMsg])
               \/ UNCHANGED posts
       ELSE /\ http' = [http EXCEPT ![r].waiter.pc = "done", ![r].subscribed = FALSE]
            /\ UNCHANGED posts
    /\ UNCHANGED <<github, aggVars, kv, clock>>

NextWaiter ==
    \/ \E u \in Users, privateAllowed \in BOOLEAN : ConnectUserToGitHub(u, privateAllowed)
    \/ WaiterTick
    \/ \E r \in 1..Cardinality(Tokens) : WaiterContext(r)
    \/ \E r \in 1..Cardinality(Tokens), err \in CompletionErrors : ChannelSend(r, err)
    \/ \E r \in 1..Cardinality(Tokens) : WaiterSelect(r)
    \/ \E r \in 1..Cardinality(Tokens) : WaiterFinish(r)

SpecWaiter ==
    /\ InitOAuth
    /\ [][NextWaiter]_vars
    /\ WF_vars(WaiterTick)
    /\ \A r \in 1..Cardinality(Tokens) :
           WF_vars(WaiterContext(r)) /\ WF_vars(WaiterSelect(r)) /\ WF_vars(WaiterFinish(r))

----------------------------------------------------------------------------
(* Plugin.getConnected: GET /connected.  http is the sequence of the         *)
(* requests that arrived; the handlers run concurrently and interleave       *)
(* between their calls of the key-value store.  Time is in milliseconds.     *)

\* Largest number of /connected requests of the user.
MaxConnected == 2

\* The clock starts at 23:30 UTC of day 0, when the user connected, and
\* advances in steps of half an hour, MaxTicks times at most.
StartMillis == 84600000
TickMillis == 1800000
MaxTicks == 4

\* The X-Timezone-Offset headers: minutes behind UTC.
TimezoneOffsets == {0, 60}

\* The user whose browser sends the requests.
ConnectedUser == "u1"

\* info.UserID + githubPrivateRepoKey
PrivateRepoKey(userID) == <<userID, "githubPrivateRepoKey">>

\* getGitHubUserInfo(userID): the stored record, nil if there is none.
getGitHubUserInfo(s, userID) == KVGet(s, UserInfoKey(userID))

\* time.Unix(ms/1000, 0).In(time.FixedZone("local", -60*offset)): the
\* calendar date (year, month, day) as a day number.
LocalDate(ms, offset) == ((ms \div 1000) + (-60 * offset)) \div 86400

\* api.go:682: nt.Sub(lt).Hours() >= 1 and the dates differ.
ReminderDue(now, lastPostAt, offset) ==
    /\ (now \div 1000) - (lastPostAt \div 1000) >= 3600
    /\ LocalDate(now, offset) # LocalDate(lastPostAt, offset)

InitConnected ==
    /\ AggregationIdle
    /\ github = <<>>
    /\ posts = <<>>
    /\ http = <<>>
    /\ clock = StartMillis
    /\ \/ kv = <<>>
       \/ \E dailyReminder \in BOOLEAN, allowedPrivateRepos \in BOOLEAN :
              kv = storeGitHubUserInfo(<<>>,
                       [UserID |-> ConnectedUser, Token |-> <<<<"token", "code">>>>,
                        GitHubUsername |-> "octocat", LastToDoPostAt |-> StartMillis,
                        Settings |-> [SidebarButtons |-> "team", DailyReminder |-> dailyReminder,
                                      Notifications |-> TRUE],
                        AllowedPrivateRepos |-> allowedPrivateRepos,
                        MM34646ResetTokenDone |-> TRUE])

\* Time passes.
Tick ==
    /\ clock < StartMillis + MaxTicks * TickMillis
    /\ clock' = clock + TickMillis
    /\ UNCHANGED <<github, aggVars, kv, posts, http>>

\* api.go:695-696: the handler goes on to the private-repository notice, or
\* writes its response.
AfterReminder(req) ==
    IF req.config.EnablePrivateRepo /\ ~req.info[1].AllowedPrivateRepos
    THEN [req EXCEPT !.pc = "private"]
    ELSE [req EXCEPT !.pc = "done", !.response = <<[Connected |-> TRUE]>>]

\* api.go:646-682: a request arrives; the user info is loaded and the
\* reminder condition is evaluated on it.
GetConnectedLoad(userID, reminder, offset, enablePrivateRepo) ==
    LET info == IF userID = "" THEN <<>> ELSE getGitHubUserInfo(kv, userID)
        req  == [handler |-> "connected", UserID |-> userID, pc |-> "load",
                 reminder |-> reminder, offset |-> offset,
                 config |-> [EnablePrivateRepo |-> enablePrivateRepo],
                 info |-> info, now |-> 0, response |-> <<>>]
    IN  /\ Len(http) < MaxConnected
        /\ \/ /\ info = <<>>
              /\ http' = Append(http, [req EXCEPT !.pc = "done",
                                                  !.response = <<[Connected |-> FALSE]>>])
           \/ /\ info # <<>>
              /\ http' = Append(http,
                     IF info[1].Settings.DailyReminder /\ reminder
                        /\ ReminderDue(clock, info[1].LastToDoPostAt, offset)
                     THEN [req EXCEPT !.pc = "todo", !.now = clock]
                     ELSE AfterReminder(req))
        /\ UNCHANGED <<github, aggVars, kv, posts, clock>>

\* api.go:683-691: HasUnreads, PostToDo, info.LastToDoPostAt = now and the
\* store of the info; a failing PostToDo or store is only logged.
GetConnectedToDo(r) ==
    /\ r \in 1..Len(http) /\ http[r].handler = "connected" /\ http[r].pc = "todo"
    /\ \/ /\ http' = [http EXCEPT ![r] = AfterReminder(@)]
          /\ UNCHANGED <<kv, posts>>
       \/ LET info == [http[r].info[1] EXCEPT !.LastToDoPostAt = http[r].now]
          IN  /\ http' = [http EXCEPT ![r] = AfterReminder([@ EXCEPT !.info = <<info>>])]
              /\ \/ posts' = Append(posts, [UserID |-> http[r].UserID, type |-> "todo",
                                            at |-> http[r].now, offset |-> http[r].offset])
                 \/ UNCHANGED posts
              /\ \/ kv' = storeGitHubUserInfo(kv, info)
                 \/ UNCHANGED kv
    /\ UNCHANGED <<github, aggVars, clock>>

\* api.go:697-704: KVGet of the user's private-repository key.
GetConnectedPrivateGet(r) ==
    /\ r \in 1..Len(http) /\ http[r].handler = "connected" /\ http[r].pc = "private"
    /\ \/ http' = [http EXCEPT ![r].pc = "done"]
       \/ http' = [http EXCEPT ![r] =
              IF KVGet(kv, PrivateRepoKey(http[r].info[1].UserID)) = <<>>
              THEN [@ EXCEPT !.pc = "notice"]
              ELSE [@ EXCEPT !.pc = "done", !.response = <<[Connected |-> TRUE]>>]]
    /\ UNCHANGED <<github, aggVars, kv, posts, clock>>

\* api.go:704-718: the notice, the KVSet of the key (a failure is only
\* logged) and the response.
GetConnectedNotice(r) ==
    /\ r \in 1..Len(http) /\ http[r].handler = "connected" /\ http[r].pc = "notice"
    /\ posts' = Append(posts, [UserID |-> http[r].info[1].UserID, type |-> "private repos enabled",
                               at |-> clock, offset |-> http[r].offset])
    /\ \/ kv' = KVSet(kv, PrivateRepoKey(http[r].info[1].UserID), "1")
       \/ UNCHANGED kv
    /\ http' = [http EXCEPT ![r].pc = "done", ![r].response = <<[Connected |-> TRUE]>>]
    /\ UNCHANGED <<github, aggVars, clock>>

NextConnected ==
    \/ Tick
    \/ \E userID \in {"", ConnectedUser}, reminder \in BOOLEAN, offset \in TimezoneOffsets,
          enablePrivateRepo \in BOOLEAN :
           GetConnectedLoad(userID, reminder, offset, enablePrivateRepo)
    \/ \E r \in 1..MaxConnected : GetConnectedToDo(r)
    \/ \E r \in 1..MaxConnected : GetConnectedPrivateGet(r)
    \/ \E r \in 1..MaxConnected : GetConnectedNotice(r)

SpecConnected == InitConnected /\ [][NextConnected]_vars

----------------------------------------------------------------------------
(* The issue handlers: Plugin.closeOrReopenIssue with CreateCommentToIssue   *)
(* and CloseOrReopenIssue, and Plugin.updateIssue with updatePost.  github   *)
(* is the issue on GitHub, posts[1] the post the plugin made for it and the  *)
(* later posts the replies; http is the sequence of the requests that        *)
(* arrived, each with its handler's pc and locals and, in trace, what it     *)
(* did so far: the calls that changed GitHub or a post, the calls that       *)
(* failed, and the bodies it wrote to its http.ResponseWriter.  Requests are *)
(* served concurrently and interleave between their calls.                   *)

\* Largest number of requests.
MaxIssueRequests == 2

\* api.go:47-48, the values of the post's "status" property.
Close == "Close"
Reopen == "Reopen"

\* The state CloseOrReopenIssue compares its status with.
actionClosed == "closed"

\* The id of the issue's post, and an id no post has.
IssuePostID == "p1"
PostIDs == {IssuePostID, "gone"}

\* What one event of a trace is.
Event(ev, arg) == [ev |-> ev, arg |-> arg]

\* writeAPIError: the status code and the body.
WroteError(status) == Event("error", status)

\* writeJSON: the body.
WroteJSON == Event("json", 200)

\* The responses GitHub fails a call with that are not 410 Gone.
FailureCodes == {404}

\* The places of the posts with this id.
PostsWithID(ps, id) == {i \in 1..Len(ps) : ps[i].Id = id}

\* p.API.GetPost(id): an error, or the post, nil when there is none.
GetPostOutcomes(ps, id) ==
    {[err |-> TRUE, post |-> <<>>]}
        \cup {[err |-> FALSE,
               post |-> IF PostsWithID(ps, id) = {} THEN <<>>
                        ELSE <<ps[CHOOSE i \in PostsWithID(ps, id) : TRUE]>>]}

\* p.API.UpdatePost(post) when it succeeds.
UpdatePost(ps, post) == [i \in 1..Len(ps) |-> IF ps[i].Id = post.Id THEN post ELSE ps[i]]

\* p.API.CreatePost(reply) when it succeeds.
CreatePost(ps, userID, rootID, message) ==
    Append(ps, [Id |-> "reply", RootId |-> rootID, UserId |-> userID, Message |-> message,
                Props |-> <<>>])

\* The requests that arrived for a handler, and those not yet served.
IssueRequestsAt(handler, p) ==
    {r \in 1..Len(http) : http[r].handler = handler /\ http[r].pc = p}

\* A request as it arrives.
IssueRequest(handler, userID, body) ==
    [handler |-> handler, UserID |-> userID, pc |-> "start", req |-> body,
     post |-> <<>>, trace |-> <<>>]

\* A request that ends having written an API error.
EndedWithError(request, status) ==
    [request EXCEPT !.pc = "done", !.trace = Append(@, WroteError(status))]

\* The bodies of POST /closeorreopenissue: not JSON, a number that is none,
\* or a request to close or to reopen, with or without a comment.
CloseOrReopenBodies ==
    [json : BOOLEAN, Number : {"7", "seven"}, PostID : PostIDs,
     IssueComment : {"", "done"}, Status : {Close, Reopen}]

\* The bodies of POST /updateissue.
UpdateIssueBodies ==
    [json : BOOLEAN, Title : {"", "t1"}, PostID : {"", IssuePostID}, ChannelID : {"", "ch"},
     Repo : {"acme/repo", "repo"}]

InitIssue ==
    /\ AggregationIdle
    /\ kv = <<>> /\ http = <<>> /\ clock = 0
    /\ \E state \in {"open", "closed"} :
           /\ github = [state |-> state, title |-> "t0", comments |-> 0]
           /\ posts = <<[Id |-> IssuePostID, RootId |-> "", UserId |-> "u1",
                         Message |-> "issue",
                         Props |-> [status |-> IF state = "open" THEN Close ELSE Reopen,
                                    title |-> "t0"]]>>

\* api.go:1718-1748, POST /closeorreopenissue arrives: the body, the number,
\* the post and its author's username.
CloseOrReopenIssueArrive(userID, body) ==
    LET request == IssueRequest("closeOrReopenIssue", userID, body)
    IN  /\ Len(http) < MaxIssueRequests
        /\ \/ /\ ~body.json
              /\ http' = Append(http, EndedWithError(request, 400))
           \/ /\ body.json /\ body.Number = "seven"
              /\ http' = Append(http, EndedWithError(request, 400))
           \/ /\ body.json /\ body.Number # "seven"
              /\ \E got \in GetPostOutcomes(posts, body.PostID) :
                     IF got.err
                     THEN http' = Append(http, EndedWithError(request, 500))
                     ELSE IF got.post = <<>>
                     THEN http' = Append(http, EndedWithError(request, 404))
                     ELSE \/ http' = Append(http, EndedWithError(request, 500))
                          \/ http' = Append(http,
                                 [request EXCEPT !.post = got.post,
                                                 !.pc = IF body.IssueComment # ""
                                                        THEN "comment" ELSE "edit"])
        /\ UNCHANGED <<github, aggVars, kv, posts, clock>>

\* api.go:1617-1652, CreateCommentToIssue; closeOrReopenIssue goes on after it
\* (1746-1750).
CreateCommentToIssue(r) ==
    /\ r \in IssueRequestsAt("closeOrReopenIssue", "comment")
    /\ \/ /\ \E status \in FailureCodes \cup {500} :
                 http' = [http EXCEPT ![r].pc = "edit",
                                      ![r].trace = @ \o <<Event("CreateComment failed", status),
                                                          WroteError(status)>>]
          /\ UNCHANGED <<github, posts>>
       \/ /\ github' = [github EXCEPT !.comments = @ + 1]
          /\ \/ /\ http' = [http EXCEPT ![r].pc = "edit",
                                        ![r].trace = @ \o <<Event("CreateComment", 201),
                                                            Event("CreatePost failed", 0),
                                                            WroteError(500)>>]
                /\ UNCHANGED posts
             \/ /\ http' = [http EXCEPT ![r].pc = "edit",
                                        ![r].trace = @ \o <<Event("CreateComment", 201),
                                                            Event("CreatePost", 0)>>]
                /\ posts' = CreatePost(posts, http[r].UserID, http[r].post[1].Id, "Comment attached")
    /\ UNCHANGED <<aggVars, kv, clock>>

\* api.go:1750-1754: the status the issue is to get.
StatusToSet(req) == IF req.Status = Close THEN "closed" ELSE "open"

\* api.go:1654-1679, CloseOrReopenIssue: Issues.Edit and its failures.  A
\* failure without a response makes resp.StatusCode (1672) panic.
CloseOrReopenIssueEdit(r) ==
    /\ r \in IssueRequestsAt("closeOrReopenIssue", "edit")
    /\ \/ /\ \/ http' = [http EXCEPT ![r] =
                     EndedWithError([@ EXCEPT !.trace = Append(@, Event("Edit failed", 410))], 405)]
             \/ \E status \in FailureCodes :
                    http' = [http EXCEPT ![r] =
                        EndedWithError([@ EXCEPT !.trace = Append(@, Event("Edit failed", status))],
                                       status)]
             \/ http' = [http EXCEPT ![r].pc = "panicked",
                                     ![r].trace = Append(@, Event("Edit failed", 0))]
          /\ UNCHANGED github
       \/ /\ github' = [github EXCEPT !.state = StatusToSet(http[r].req)]
          /\ http' = [http EXCEPT ![r].pc = "update",
                                  ![r].trace = Append(@, Event("Edit", 200))]
    /\ UNCHANGED <<aggVars, kv, posts, clock>>

\* api.go:1707-1711: the property after the issue got this status.
NewIssueStatus(status) == IF status = actionClosed THEN Reopen ELSE Close

\* api.go:1680-1715, CloseOrReopenIssue after the edit: the reply, the
\* post's property, UpdatePost, and the issue written as JSON.
CloseOrReopenIssueUpdate(r) ==
    /\ r \in IssueRequestsAt("closeOrReopenIssue", "update")
    /\ LET post    == [http[r].post[1] EXCEPT
                          !.Props.status = NewIssueStatus(StatusToSet(http[r].req))]
           replied == CreatePost(posts, http[r].UserID, post.Id, "Issue closed or reopened")
       IN  \/ /\ http' = [http EXCEPT ![r] =
                     EndedWithError([@ EXCEPT !.trace = Append(@, Event("CreatePost failed", 0))],
                                    500)]
              /\ UNCHANGED posts
           \/ /\ http' = [http EXCEPT ![r].pc = "done", ![r].post = <<post>>,
                                      ![r].trace = @ \o <<Event("CreatePost", 0),
                                                          Event("UpdatePost failed", 0),
                                                          WroteError(500), WroteJSON>>]
              /\ posts' = replied
           \/ /\ http' = [http EXCEPT ![r].pc = "done", ![r].post = <<post>>,
                                      ![r].trace = @ \o <<Event("CreatePost", 0),
                                                          Event("UpdatePost", 0), WroteJSON>>]
              /\ posts' = UpdatePost(replied, post)
    /\ UNCHANGED <<github, aggVars, kv, clock>>

\* strings.Split(issue.Repo, "/"): the number of parts.
SplittedRepoLen(repo) == IF repo = "acme/repo" THEN 2 ELSE 1

\* api.go:1507-1561, POST /updateissue arrives: the body, its validation, the
\* post, the current user and the repo.  After the error for a repo without
\* a slash the handler goes on and splittedRepo[1] panics.
UpdateIssueArrive(userID, body) ==
    LET request == IssueRequest("updateIssue", userID, body)
        valid   == body.json /\ body.Title # "" /\ ~(body.PostID = "" /\ body.ChannelID = "")
        checked(req) ==
            IF SplittedRepoLen(body.Repo) < 2
            THEN [req EXCEPT !.pc = "panicked", !.trace = Append(@, WroteError(400))]
            ELSE [req EXCEPT !.pc = "edit"]
    IN  /\ Len(http) < MaxIssueRequests
        /\ \/ /\ ~valid
              /\ http' = Append(http, EndedWithError(request, 400))
           \/ /\ valid /\ body.PostID # ""
              /\ \E got \in GetPostOutcomes(posts, body.PostID) :
                     IF got.err
                     THEN http' = Append(http, EndedWithError(request, 500))
                     ELSE IF got.post = <<>>
                     THEN http' = Append(http, EndedWithError(request, 404))
                     ELSE \/ http' = Append(http, EndedWithError(request, 500))
                          \/ http' = Append(http, checked([request EXCEPT !.post = got.post]))
           \/ /\ valid /\ body.PostID = ""
              /\ \/ http' = Append(http, EndedWithError(request, 500))
                 \/ http' = Append(http, checked(request))
        /\ UNCHANGED <<github, aggVars, kv, posts, clock>>

\* api.go:1474-1492, updatePost: it gets the post again, sets the properties
\* and updates it; on a failure it writes an API error and returns to its
\* caller.
updatePost(ps, issue) ==
    {[posts |-> ps, trace |-> <<Event("GetPost failed", 0), WroteError(500)>>]}
        \cup (IF PostsWithID(ps, issue.PostID) = {}
              THEN {[posts |-> ps, trace |-> <<Event("GetPost failed", 0), WroteError(404)>>]}
              ELSE LET old  == ps[CHOOSE i \in PostsWithID(ps, issue.PostID) : TRUE]
                       post == [old EXCEPT !.Props.title = issue.Title]
                   IN  {[posts |-> ps,
                         trace |-> <<Event("UpdatePost failed", 0), WroteError(500)>>],
                        [posts |-> UpdatePost(ps, post), trace |-> <<Event("UpdatePost", 0)>>]})

\* api.go:1563-1615, updateIssue: Issues.Edit, the notification, updatePost
\* and the issue written as JSON.
UpdateIssueEdit(r) ==
    /\ r \in IssueRequestsAt("updateIssue", "edit")
    /\ \/ /\ \/ http' = [http EXCEPT ![r] =
                     EndedWithError([@ EXCEPT !.trace = Append(@, Event("Edit failed", 410))], 405)]
             \/ \E status \in FailureCodes :
                    http' = [http EXCEPT ![r] =
                        EndedWithError([@ EXCEPT !.trace = Append(@, Event("Edit failed", status))],
                                       status)]
             \/ http' = [http EXCEPT ![r].pc = "panicked",
                                     ![r].trace = Append(@, Event("Edit failed", 0))]
          /\ UNCHANGED <<github, posts>>
       \/ /\ github' = [github EXCEPT !.title = http[r].req.Title]
          /\ \/ /\ http[r].post # <<>>
                /\ http' = [http EXCEPT ![r] =
                       EndedWithError([@ EXCEPT !.trace = @ \o <<Event("Edit", 200),
                                                                Event("CreatePost failed", 0)>>],
                                      500)]
                /\ UNCHANGED posts
             \/ \E updated \in updatePost(
                        IF http[r].post # <<>>
                        THEN CreatePost(posts, http[r].UserID, http[r].post[1].Id, "Updated GitHub issue")
                        ELSE posts,
                        http[r].req) :
                    /\ posts' = updated.posts
                    /\ http' = [http EXCEPT
                           ![r].pc = "done",
                           ![r].trace = @ \o <<Event("Edit", 200),
                                               Event(IF http[r].post # <<>> THEN "CreatePost"
                                                     ELSE "SendEphemeralPost", 0)>>
                                          \o updated.trace \o <<WroteJSON>>]
    /\ UNCHANGED <<aggVars, kv, clock>>

NextIssue ==
    \/ \E body \in CloseOrReopenBodies : CloseOrReopenIssueArrive("u1", body)
    \/ \E r \in 1..MaxIssueRequests : CreateCommentToIssue(r)
    \/ \E r \in 1..MaxIssueRequests : CloseOrReopenIssueEdit(r)
    \/ \E r \in 1..MaxIssueRequests : CloseOrReopenIssueUpdate(r)
    \/ \E body \in UpdateIssueBodies : UpdateIssueArrive("u1", body)
    \/ \E r \in 1..MaxIssueRequests : UpdateIssueEdit(r)

SpecIssue == InitIssue /\ [][NextIssue]_vars

----------------------------------------------------------------------------
(* What the claims are stated in: the pages the API served, read from the   *)
(* log of responses alone.                                                  *)

QueriesOfOp == IF op = "GetLHSData" THEN LHSQueries ELSE {"Search"}

\* The successful round trips, in order.
OkResponses == SelectSeq(responses, LAMBDA r : r.err = <<>>)

\* The number of the first page of q with hasNextPage = false; 0 if none yet.
LastPage(q) ==
    LET last == {i \in 1..Len(OkResponses) : ~OkResponses[i][q].PageInfo.HasNextPage}
    IN  IF last = {} THEN 0 ELSE CHOOSE i \in last : \A j \in last : i <= j

\* Query q was exhausted by a page before round trip i.
ExhaustedBefore(q, i) == LastPage(q) # 0 /\ LastPage(q) < i

RECURSIVE NodesUpTo(_, _)
NodesUpTo(q, n) == IF n = 0 THEN <<>> ELSE NodesUpTo(q, n - 1) \o OkResponses[n][q].Nodes

\* The nodes of q's pages up to and including its first page without a next
\* page (of all pages served so far, when there was none yet).
ServedNodes(q) == NodesUpTo(q, IF LastPage(q) = 0 THEN Len(OkResponses) ELSE LastPage(q))

\* The WorkItem whose seven attributes are those of fragment v.
WorkItemOf(v) ==
    [Number |-> v.Number, RepositoryURL |-> v.Repository.URL, Title |-> v.Title,
     CreatedAt |-> v.CreatedAt, UpdatedAt |-> v.UpdatedAt,
     Login |-> v.Author.Login, HTMLURL |-> v.URL]

\* Normalisation as specified: the issue fragment if its number is non-zero,
\* otherwise the pull-request fragment.
Normalised(node) ==
    IF "Issue" \in DOMAIN node /\ node.Issue.Number # 0
    THEN WorkItemOf(node.Issue)
    ELSE WorkItemOf(node.PullRequest)

NormalisedAll(nodes) == [k \in 1..Len(nodes) |-> Normalised(nodes[k])]

\* The position of each search's sequence among GetLHSData's return values.
OutIndex == [PullRequest |-> 1, Assignee |-> 2, OpenPullRequest |-> 3, Search |-> 1]

\* The accumulator each search is collected in.
Accumulated(q) ==
    IF q = "Search" THEN local.res
    ELSE IF q = "PullRequest" THEN local.resultPR
    ELSE IF q = "Assignee" THEN local.resultAssignee
    ELSE local.resultOpenPR

\* What the caller reads in the sequence returned for q.
Returned(q) == ObserveAll(heap, ret.out[OutIndex[q]])

\* The call ended without a failed round trip.
EndedWithoutFailure == pc \in {"returned", "panicked"}

----------------------------------------------------------------------------
\* C1: a single-query aggregation (GetYourPrs, GetYourAssignment) that ends
\* without a failed round trip returns exactly one WorkItem per node of the
\* pages served, and the k-th WorkItem the caller reads is the normalisation
\* of the k-th node in page-then-within-page order.
C1_SingleQueryComplete ==
    (op \in {"GetYourPrs", "GetYourAssignment"} /\ EndedWithoutFailure)
        => /\ pc = "returned"
           /\ ret.err = <<>>
           /\ Returned("Search") = NormalisedAll(ServedNodes("Search"))

\* C2: when no round trip fails, the sequence GetLHSData returns for a query
\* holds every node of that query's pages, up to and including its first
\* page without a next page, exactly once and nothing else.
C2_LHSComplete ==
    \A q \in LHSQueries :
        (op = "GetLHSData" /\ EndedWithoutFailure /\ LastPage(q) # 0)
            => /\ ret # <<>>
               /\ \A n \in 1..Len(ServedNodes(q)) :
                      Cardinality({k \in 1..Len(Returned(q)) :
                                      Returned(q)[k] = Normalised(ServedNodes(q)[n])}) = 1
               /\ Len(Returned(q)) = Len(ServedNodes(q))

\* The query a WorkItem's node was served for (the API names node k of page r
\* of query q <<q, r, k>>); "" for a WorkItem of zero values.
QueryOfItem(w) == IF w.HTMLURL = <<>> THEN "" ELSE w.HTMLURL[3][1]

\* C3: whatever the page counts of the three queries, GetLHSData's output
\* for a query is made of exactly the nodes of that query's own pages, and no
\* node served for one query appears in the output of another.
C3_LHSIndependent ==
    (op = "GetLHSData" /\ EndedWithoutFailure)
        => /\ ret # <<>>
           /\ \A q \in LHSQueries :
                  /\ {Returned(q)[k] : k \in 1..Len(Returned(q))}
                         = {Normalised(ServedNodes(q)[n]) : n \in 1..Len(ServedNodes(q))}
                  /\ \A k \in 1..Len(Returned(q)) : QueryOfItem(Returned(q)[k]) \in {q, ""}

\* The params keys that carry each search's filter and cursor.
FilterParam ==
    [PullRequest |-> "prReviewQueryArg", Assignee |-> "assigneeQueryArg",
     OpenPullRequest |-> "prOpenQueryArg"]
CursorParam ==
    [PullRequest |-> "reviewCursor", Assignee |-> "assignmentsCursor",
     OpenPullRequest |-> "openPrsCursor"]

\* C4: once a page of a query of GetLHSData has reported hasNextPage = false,
\* no later round trip of the call carries that query's filter or cursor
\* parameter: only the queries not yet exhausted are requested.
C4_NoReissueAfterExhaustion ==
    op = "GetLHSData"
        => \A i \in 1..Len(requests) : \A q \in LHSQueries :
               ExhaustedBefore(q, i)
                   => /\ FilterParam[q] \notin DOMAIN requests[i]
                      /\ CursorParam[q] \notin DOMAIN requests[i]

\* C5: from the round in which a query of GetLHSData reports
\* hasNextPage = false on, what that query has accumulated does not change,
\* whatever later responses hold for it, and it is what the call returns.
C5_ExhaustedOutputFrozen ==
    [][\A q \in LHSQueries :
          (op = "GetLHSData" /\ pc = "loop" /\ LastPage(q) # 0)
              => /\ ObserveAll(heap', Accumulated(q)') = ObserveAll(heap, Accumulated(q))
                 /\ pc' = "returned" => Returned(q)' = ObserveAll(heap, Accumulated(q))]_vars

\* C5 witness: review requests were exhausted by a first page of two nodes,
\* two later responses carried further review-request nodes, and the call
\* returned the two nodes of the first page.
C5_Witness ==
    /\ op = "GetLHSData" /\ pc = "returned" /\ Len(responses) = 3
    /\ ~responses[1].PullRequest.PageInfo.HasNextPage
    /\ Len(responses[1].PullRequest.Nodes) = 2
    /\ Len(responses[2].PullRequest.Nodes) > 0 /\ responses[2].PullRequest.PageInfo.HasNextPage
    /\ Len(responses[3].PullRequest.Nodes) > 0
    /\ Returned("PullRequest") = NormalisedAll(responses[1].PullRequest.Nodes)

\* A round trip failed: the last response is an error.
LastFailed == responses # <<>> /\ responses[Len(responses)].err # <<>>

\* C6: a failed round trip, on the first page or a later one, makes the call
\* return that error and nil for every output, whatever had been accumulated,
\* and the failed request is the call's last: there is no retry.
C6_FailureDiscardsAll ==
    /\ LastFailed <=> pc = "failed"
    /\ pc = "failed"
           => /\ ret.err = responses[Len(responses)].err
              /\ Len(ret.out) = Cardinality(QueriesOfOp)
              /\ \A i \in 1..Len(ret.out) : ret.out[i] = <<>>
              /\ Len(requests) = Len(responses)
              /\ \A i \in 1..(Len(responses) - 1) : responses[i].err = <<>>
    /\ pc # "failed" => ret = <<>> \/ ret.err = <<>>

\* C6 witness: the third round trip failed after two pages whose nodes had
\* been accumulated.
C6_Witness ==
    /\ pc = "failed" /\ Len(responses) = 3
    /\ \A q \in QueriesOfOp : Len(Accumulated(q)) >= 2 \/ q = "Assignee"

\* The largest of the queries' page counts.
MaxLastPage == CHOOSE n \in {LastPage(q) : q \in QueriesOfOp} :
                   \A q \in QueriesOfOp : LastPage(q) <= n

\* C7: pagination stops exactly at exhaustion. A call that ends without a
\* failed round trip has returned, after exactly as many round trips as its
\* query has pages (GetLHSData: as the largest page count of its three
\* queries); until then some query still has pages and the call goes on.
C7_StopsAtExhaustion ==
    /\ EndedWithoutFailure
           => /\ pc = "returned"
              /\ \A q \in QueriesOfOp : LastPage(q) # 0
              /\ Len(requests) = MaxLastPage
    /\ pc = "loop" => \E q \in QueriesOfOp : LastPage(q) = 0

\* The params key that carries the cursor of query q of the running call.
CursorKey(q) ==
    IF op = "GetYourPrs" THEN "prsCursor"
    ELSE IF op = "GetYourAssignment" THEN "assignmentCursor"
    ELSE CursorParam[q]

\* C8: the first request carries a nil cursor for every query; the request of
\* round k+1 carries, for every query not yet exhausted, exactly the end
\* cursor of that query's page of round k; and a cursor is never anything but
\* nil or an end cursor of that same query's earlier pages.
C8_CursorAdvances ==
    \A i \in 1..Len(requests) : \A q \in QueriesOfOp :
        /\ i = 1 => requests[i][CursorKey(q)] = <<>>
        /\ (i > 1 /\ ~ExhaustedBefore(q, i))
               => requests[i][CursorKey(q)] = <<responses[i - 1][q].PageInfo.EndCursor>>
        /\ requests[i][CursorKey(q)] \in
               {<<>>} \cup {<<responses[j][q].PageInfo.EndCursor>> : j \in 1..(i - 1)}

\* C8 witness: a third request of GetLHSData that carries the cursors of the
\* second pages of two queries and the cursor the exhausted third ended on.
C8_Witness ==
    /\ op = "GetLHSData" /\ Len(requests) = 3
    /\ requests[3].reviewCursor = <<<<"PullRequest", 2>>>>
    /\ requests[3].openPrsCursor = <<<<"OpenPullRequest", 2>>>>
    /\ requests[3].assignmentsCursor = <<<<"Assignee", 1>>>>

\* C9: in what GetYourAssignment returns, the WorkItem of a node whose issue
\* number is non-zero has the number, repository URL, web URL, title, author
\* handle and timestamps of the issue fragment, and the WorkItem of a node
\* whose issue number is zero and pull-request number is non-zero has those
\* of the pull-request fragment.
C9_AssignmentNormalised ==
    (op = "GetYourAssignment" /\ pc = "returned")
        => /\ Len(ret.out[1]) = Len(ServedNodes("Search"))
           /\ \A k \in 1..Len(ret.out[1]) :
                  LET node == ServedNodes("Search")[k]
                      item == Observe(heap, ret.out[1][k])
                  IN  /\ node.Issue.Number # 0 => item = WorkItemOf(node.Issue)
                      /\ (node.Issue.Number = 0 /\ node.PullRequest.Number # 0)
                             => item = WorkItemOf(node.PullRequest)

\* C10: for every node of the assignments result set GetLHSData processes,
\* getPRorIssue returns a WorkItem, built from the issue fragment when the
\* issue number is non-zero and from the node's pull-request fragment
\* otherwise; no call reads through the nil pull-request node.
C10_LHSAssignmentNormalised ==
    (op = "GetLHSData" /\ pc # "start")
        => /\ pc # "panicked"
           /\ ObserveAll(heap, local.resultAssignee) = NormalisedAll(ServedNodes("Assignee"))

\* A node without a usable identifier on either variant.
Malformed(node) ==
    /\ node.PullRequest.Number = 0
    /\ "Issue" \in DOMAIN node => node.Issue.Number = 0

\* C11: when a node the call has processed has a zero identifier on both the
\* issue and the pull-request variant, the call has failed as a whole: it
\* returned an error and nil for every output; and no WorkItem with a zero
\* identifier is ever accumulated.
C11_MalformedNodeRejected ==
    pc # "start"
        => \A q \in QueriesOfOp :
               /\ (\E n \in 1..Len(ServedNodes(q)) : Malformed(ServedNodes(q)[n]))
                      => /\ ret # <<>>
                         /\ ret.err # <<>>
                         /\ \A i \in 1..Len(ret.out) : ret.out[i] = <<>>
               /\ \A k \in 1..Len(Accumulated(q)) : Accumulated(q)[k].Number # 0

\* The author handle of the fragment a WorkItem's by-value attributes were
\* copied from (the API names the fragments of node id by tag and id).
AuthorOfSource(w) == IF w.HTMLURL = <<>> THEN <<>> ELSE <<"login", w.HTMLURL[2], w.HTMLURL[3]>>

\* C12: between round trips and at return, the author handle the caller reads
\* through every WorkItem accumulated so far is the author of the node the
\* WorkItem was built from: processing later nodes or pages has not changed it.
C12_AuthorHandleStable ==
    pc # "start"
        => \A q \in QueriesOfOp : \A k \in 1..Len(Accumulated(q)) :
               LET w == Observe(heap, Accumulated(q)[k])
               IN  w.Login = AuthorOfSource(w)

\* The params key that carries the filter of query q of the running call.
FilterKey(q) ==
    IF op = "GetYourPrs" THEN "prSearchQueryArg"
    ELSE IF op = "GetYourAssignment" THEN "assignmentSearchQueryArg"
    ELSE FilterParam[q]

\* The terms that restrict a search to an organisation.
OrgTerms == {"org:" \o o : o \in Orgs}

\* How many organisation restrictions filter f carries.
OrgTermCount(f) == Cardinality({j \in 1..Len(f) : f[j] \in OrgTerms})

\* C14: in every round trip of GetYourPrs, GetYourAssignment and GetLHSData
\* every filter sent starts with "org:<name>" and carries no second
\* organisation restriction when an organisation is configured, and carries
\* none at all when no organisation is configured, whatever the round.
C14_OrgScopedOnce ==
    \A i \in 1..Len(requests) : \A q \in QueriesOfOp :
        LET f == requests[i][FilterKey(q)]
        IN  IF org # ""
            THEN f[1] = "org:" \o org /\ OrgTermCount(f) = 1
            ELSE OrgTermCount(f) = 0

\* C14 witness: a third round trip of GetLHSData for a client of organisation
\* acme, its three filters carrying the restriction in front.
C14_Witness ==
    /\ op = "GetLHSData" /\ org = "acme" /\ Len(requests) = 3
    /\ \A q \in LHSQueries : requests[3][FilterParam[q]][1] = "org:acme"

\* The params keys that carry cursors.
CursorKeys == {"prsCursor", "assignmentCursor", "reviewCursor", "assignmentsCursor", "openPrsCursor"}

\* C15: every request of a call carries the same parameters as the first,
\* and apart from the cursors the same values: the filters sent in round k+1
\* are those sent in round 1.
C15_OnlyCursorsChange ==
    \A i \in 2..Len(requests) :
        /\ DOMAIN requests[i] = DOMAIN requests[1]
        /\ \A key \in DOMAIN requests[i] \ CursorKeys : requests[i][key] = requests[1][key]
        /\ \A q \in QueriesOfOp : requests[i][FilterKey(q)] = requests[1][FilterKey(q)]

\* C15 witness: a third request of GetYourPrs whose cursor is the end cursor
\* of the second page and whose filter is the one of the first request.
C15_Witness ==
    /\ op = "GetYourPrs" /\ Len(requests) = 3
    /\ requests[3].prsCursor = <<<<"Search", 2>>>>
    /\ requests[2].prsCursor = <<<<"Search", 1>>>>
    /\ requests[3].prSearchQueryArg = requests[1].prSearchQueryArg

\* Where the API served the node a WorkItem was built from: page and place
\* within the page.
PageOf(w) == w.HTMLURL[3][2]
PlaceOf(w) == w.HTMLURL[3][3]

\* C16: in each of the three sequences of GetLHSData, while they are
\* collected and when they are returned, the items stand in the order the
\* API served their nodes: an item of an earlier page before every item of a
\* later page, items of one page in their order within the page, whatever
\* the page counts of the other two queries.
C16_LHSResponseOrder ==
    (op = "GetLHSData" /\ pc # "start")
        => \A q \in LHSQueries :
               LET items == IF pc = "returned" THEN Returned(q)
                            ELSE ObserveAll(heap, Accumulated(q))
               IN  \A k, l \in 1..Len(items) :
                       k < l => \/ PageOf(items[k]) < PageOf(items[l])
                                \/ /\ PageOf(items[k]) = PageOf(items[l])
                                   /\ PlaceOf(items[k]) < PlaceOf(items[l])

\* C16 witness: review requests came in three pages, the second of two
\* nodes, open pull requests in one page of two nodes, and the call returned
\* items of all of them.
C16_Witness ==
    /\ op = "GetLHSData" /\ pc = "returned"
    /\ LastPage("PullRequest") = 3 /\ LastPage("OpenPullRequest") = 1
    /\ Len(responses[2].PullRequest.Nodes) = 2
    /\ Len(Returned("PullRequest")) >= 4
    /\ Len(Returned("OpenPullRequest")) = 2

\* The successful round trips of concurrent call c, in order.
OwnResponses(c) == SelectSeq(calls[c].responses, LAMBDA r : r.err = <<>>)

\* The number of call c's first page of q with hasNextPage = false; the
\* number of its pages so far if there is none yet.
OwnLastPage(c, q) ==
    LET last == {i \in 1..Len(OwnResponses(c)) : ~OwnResponses(c)[i][q].PageInfo.HasNextPage}
    IN  IF last = {} THEN Len(OwnResponses(c)) ELSE CHOOSE i \in last : \A j \in last : i <= j

\* The WorkItems of the nodes of q the API served to call c's own requests.
OwnItems(c, q) ==
    UNION {{Normalised(OwnResponses(c)[i][q].Nodes[n]) :
               n \in 1..Len(OwnResponses(c)[i][q].Nodes)} : i \in 1..OwnLastPage(c, q)}

\* The cursors of q the API handed to call c before its i-th request.
OwnCursors(c, q, i) == {<<calls[c].responses[j][q].PageInfo.EndCursor>> : j \in 1..(i - 1)}

\* C13: of two GetLHSData calls whose round trips interleave, each returns,
\* for every query, exactly the nodes of the pages the API served to its own
\* requests, once each, and each of its requests after the first carries for
\* every query a cursor of one of its own earlier responses.
C13_NoInterference ==
    \A c \in DOMAIN calls : \A q \in LHSQueries :
        /\ calls[c].pc = "returned"
               => LET out == ObserveAll(heap, calls[c].ret.out[OutIndex[q]])
                  IN  /\ {out[k] : k \in 1..Len(out)} = OwnItems(c, q)
                      /\ Len(out) = Cardinality(OwnItems(c, q))
        /\ \A i \in 2..Len(calls[c].requests) :
               calls[c].requests[i][CursorParam[q]] \in OwnCursors(c, q, i)

\* How often the detail fetch was started for pull request pr.
FetchCount(pr) == Cardinality({j \in 1..Len(http.fetches) : http.fetches[j] = pr})

\* The pull requests the request lists.
Listed == http.body.list

\* How often pull request pr is listed in the request.
ListCount(pr) == Cardinality({j \in 1..Len(Listed) : Listed[j] = pr})

\* C17: for a request listing n pull requests, the detail fetch is started
\* at most once per listed item at any time; when the response is written
\* every one of the n goroutines has fetched and finished, and the response
\* has n elements, the i-th being a detail with the URL and number of the
\* i-th item of the request, whatever the order the fetches finished in.
C17_FanOutJoinsInOrder ==
    http.body.json
        => /\ \A pr \in PRItems : FetchCount(pr) <= ListCount(pr)
           /\ http.response # <<>>
                  => /\ Len(http.fetches) = Len(Listed)
                     /\ \A pr \in PRItems : FetchCount(pr) = ListCount(pr)
                     /\ Len(http.finished) = Len(Listed)
                     /\ \A g \in 1..Len(Listed) : http.go[g].pc = "done"
                     /\ http.response[1].StatusCode = 200
                     /\ Len(http.response[1].prDetails) = Len(Listed)
                     /\ \A j \in 1..Len(Listed) :
                            /\ http.response[1].prDetails[j] # <<>>
                            /\ http.response[1].prDetails[j][1].URL = Listed[j].URL
                            /\ http.response[1].prDetails[j][1].Number = Listed[j].Number

\* C17 witness: three pull requests, the second another one than the first
\* and the third; the fetch of the third finished first, that of the second
\* last; the response is written.
C17_Witness ==
    /\ http.body.json /\ Len(Listed) = 3
    /\ Listed[1] # Listed[2] /\ Listed[2] # Listed[3]
    /\ http.finished = <<3, 1, 2>>
    /\ http.response # <<>>

\* The user info the store holds for each user (nil: <<>>).
UserInfos(s) == [u \in Users |-> KVGet(s, UserInfoKey(u))]

\* Request r of /oauth/complete ends in this step.
EndsNow(r) ==
    /\ r \in 1..Len(http') /\ http'[r].handler = "complete" /\ http'[r].pc = "done"
    /\ r \in 1..Len(http) => http[r].pc # "done"

\* C18: a step stores user info for user u only as the successful end of a
\* /oauth/complete request that carries a non-empty code, whose state
\* parameter names a state a /oauth/connect request stored, with that token
\* and with the requesting user's ID, and whose code exchange and GitHub user
\* lookup succeeded; u is the user ID of that stored state and the record
\* holds the exchanged token.  A request that ends with an error stores no
\* user info.
C18_StoreOnlyAfterAllChecks ==
    [][/\ \A u \in Users :
              UserInfos(kv')[u] # UserInfos(kv)[u]
                  => \E r \in 1..Len(http) :
                         /\ EndsNow(r) /\ http'[r].rErr = <<>>
                         /\ http[r].code # ""
                         /\ http[r].state # <<>>
                         /\ \E c \in 1..Len(http) :
                                /\ http[c].handler = "connect" /\ http[c].StatusCode = 302
                                /\ http[c].state = http[r].state[1]
                         /\ http[r].state[1].Token = http[r].stateToken
                         /\ http[r].state[1].UserID = http[r].UserID
                         /\ http[r].state[1].UserID = u
                         /\ http[r].tok # <<>> /\ http[r].gitUser # <<>>
                         /\ UserInfos(kv')[u] # <<>>
                         /\ UserInfos(kv')[u][1].UserID = u
                         /\ UserInfos(kv')[u][1].Token = http[r].tok
       /\ \A r \in 1..Len(http') :
              (EndsNow(r) /\ http'[r].rErr # <<>>) => UserInfos(kv') = UserInfos(kv)]_vars

\* C18 witness: user info is stored for u1 by a request that passed every
\* check, while a request of u2 with u1's state was turned down.
C18_Witness ==
    /\ UserInfos(kv)["u1"] # <<>> /\ UserInfos(kv)["u2"] = <<>>
    /\ \E r \in 1..Len(http) :
           /\ http[r].handler = "complete" /\ http[r].UserID = "u1" /\ http[r].stored
    /\ \E r \in 1..Len(http) :
           /\ http[r].handler = "complete" /\ http[r].UserID = "u2"
           /\ http[r].StatusCode = 401

\* The to-do reminders and the private-repository notices posted to user u.
ToDoPosts(u) == {i \in 1..Len(posts) : posts[i].type = "todo" /\ posts[i].UserID = u}
PrivateNotices(u) ==
    {i \in 1..Len(posts) : posts[i].type = "private repos enabled" /\ posts[i].UserID = u}

\* C19: a step of getConnected posts a to-do reminder to a user only when the
\* user's stored info has daily reminders enabled, at least one hour has
\* passed since its LastToDoPostAt and the local calendar date of the request
\* differs from that of LastToDoPostAt; and no earlier reminder to the user
\* falls on that local calendar date: at most one reminder per user and day,
\* also when requests overlap.
C19_OneReminderPerDay ==
    [][(Len(posts') = Len(posts) + 1 /\ posts'[Len(posts')].type = "todo")
           => LET p      == posts'[Len(posts')]
                  stored == getGitHubUserInfo(kv, p.UserID)
              IN  /\ stored # <<>>
                  /\ stored[1].Settings.DailyReminder
                  /\ ReminderDue(p.at, stored[1].LastToDoPostAt, p.offset)
                  /\ \A i \in ToDoPosts(p.UserID) :
                         LocalDate(posts[i].at, p.offset) # LocalDate(p.at, p.offset)]_vars

\* C20: however many getConnected requests arrive, one after the other or
\* overlapping, at most one private-repository notice is ever posted to the
\* user (who does not reconnect).
C20_PrivateNoticeOnce == Cardinality(PrivateNotices(ConnectedUser)) <= 1

----------------------------------------------------------------------------
(* C21: fetchPRDetails and its two sub-fetches.                              *)

\* The call has returned.
FetchReturned == http.pc = "returned"

\* The sub-fetch of the pull request failed, at either of its two calls.
PullRequestFetchFailed ==
    \/ "Failed to fetch PR for PR details" \in http.log
    \/ "Failed to fetch combined status" \in http.log

\* What holds of every returned record: both goroutines have finished, the
\* two lists are not nil, URL and Number are the inputs, and a failed
\* fetch of the reviews left Reviews empty.
ReturnedAfterBoth ==
    /\ http.reviews = "done" /\ http.pr = "done"
    /\ http.ret[1].RequestedReviewers # <<>>
    /\ http.ret[1].Reviews # <<>>
    /\ http.ret[1].URL = http.prURL /\ http.ret[1].Number = http.prNumber
    /\ "Failed to fetch reviews for PR details" \in http.log
           => http.ret[1].Reviews = <<<<>>>>

\* C21 as stated: fetchPRDetails returns only after both sub-fetches have
\* finished, RequestedReviewers and Reviews are never nil, URL and Number
\* echo the inputs, and when a sub-fetch failed its list is the empty
\* default and Status and Mergeable are zero values.
C21_FailedSubFetchKeepsDefaults ==
    FetchReturned =>
        /\ ReturnedAfterBoth
        /\ PullRequestFetchFailed =>
               /\ http.ret[1].RequestedReviewers = <<<<>>>>
               /\ http.ret[1].Status = <<>>
               /\ http.ret[1].Mergeable = FALSE

\* C21 amended: fetchPRDetails returns only after both sub-fetches have
\* finished, RequestedReviewers and Reviews are never nil and URL and Number
\* echo the inputs.  Failed reviews leave Reviews empty; a failed get of the
\* pull request leaves RequestedReviewers empty and Status and Mergeable
\* zero; a failed get of the combined status leaves only Status zero.
C21_FailedCallKeepsItsDefaults ==
    FetchReturned =>
        /\ ReturnedAfterBoth
        /\ "Failed to fetch PR for PR details" \in http.log =>
               /\ http.ret[1].RequestedReviewers = <<<<>>>>
               /\ http.ret[1].Status = <<>>
               /\ http.ret[1].Mergeable = FALSE
        /\ "Failed to fetch combined status" \in http.log =>
               http.ret[1].Status = <<>>

\* A call has returned whose reviews failed and whose pull request was got
\* with a reviewer, mergeable, before the combined status failed.
C21_Witness ==
    /\ FetchReturned
    /\ http.log = {"Failed to fetch reviews for PR details", "Failed to fetch combined status"}
    /\ http.ret[1].RequestedReviewers = <<<<"bob">>>>
    /\ http.ret[1].Mergeable

----------------------------------------------------------------------------
(* C22, C23: the state token and the completion event of /oauth/complete.    *)

\* The /oauth/complete requests among the first n requests.
Completions(n) == {r \in 1..n : http[r].handler = "complete"}

\* A step in which an /oauth/complete request arrives.
CompletionArrives ==
    /\ Len(http') = Len(http) + 1
    /\ http'[Len(http')].handler = "complete"

\* C22: state tokens are single-use.  When an /oauth/complete request arrives
\* with a state token whose stored state an earlier completion request has
\* read, whether that one passed its checks or not, the new request does not
\* get the state: it is rejected with an error and stores no user info.
C22_StateTokenSingleUse ==
    [][(/\ CompletionArrives
        /\ \E q \in Completions(Len(http)) :
               /\ http[q].stateToken = http'[Len(http')].stateToken
               /\ http[q].state # <<>>)
           => /\ http'[Len(http')].pc = "done"
              /\ http'[Len(http')].rErr # <<>>
              /\ http'[Len(http')].state = <<>>
              /\ ~http'[Len(http')].stored
              /\ UserInfos(kv') = UserInfos(kv)]_vars

\* C23: every call of completeConnectUserToGitHub publishes exactly one
\* OAuth-complete event, for the requesting user, on whichever path it
\* returns (and none before it returns); the published error is nil if and
\* only if the call stored the user's GitHub info.
C23_OneCompletionEvent ==
    \A r \in Completions(Len(http)) :
        IF http[r].pc = "done"
        THEN /\ Len(http[r].published) = 1
             /\ http[r].published[1].UserID = http[r].UserID
             /\ http[r].published[1].err = <<>> <=> http[r].stored
        ELSE http[r].published = <<>> /\ ~http[r].stored

\* C23 witness: one call has returned after storing the user's info, another
\* has returned with an error.
C23_Witness ==
    \E r, q \in Completions(Len(http)) :
        /\ http[r].pc = "done" /\ http[r].stored /\ http[r].published[1].err = <<>>
        /\ http[q].pc = "done" /\ http[q].published[1].err = <<"not authorized, incorrect user">>

----------------------------------------------------------------------------
(* C24: the goroutine of connectUserToGitHub that waits for the completion.  *)

\* The requests of /oauth/connect that started a goroutine.
Waiters == {r \in 1..Len(http) : http[r].handler = "connect" /\ http[r].waiter.pc # "none"}

\* What holds of the goroutine of request r at any time: until it is done
\* its channel is subscribed and it has asked for no direct message; when it
\* is done the channel is unsubscribed, it has either received one event or
\* seen the timeout 45 seconds or more after it began to wait, and it asked
\* for an error direct message exactly when the event carried an error or
\* the timeout fired.
WaiterDoneRight(r) ==
    LET w == http[r].waiter
    IN  IF w.pc = "done"
        THEN /\ ~http[r].subscribed
             /\ (w.received # <<>>) # w.timedOut
             /\ w.timedOut => clock >= w.createdAt + 45000
             /\ w.dm # <<>> <=> (w.timedOut \/ (w.received # <<>> /\ w.received[1] # <<>>))
             /\ w.dm # <<>> => w.dm[1] = IF w.timedOut THEN TimedOutMsg ELSE w.received[1]
        ELSE /\ http[r].subscribed
             /\ w.dm = <<>>

\* C24: the waiter always ends.  Every goroutine connectUserToGitHub started
\* eventually unsubscribes its channel, after it received one completion
\* event or after the 45-second timeout; it sends the user an error direct
\* message if and only if the event carried an error or the timeout fired,
\* and none when the completion succeeded.
C24_WaiterAlwaysEnds ==
    /\ [](\A r \in Waiters : WaiterDoneRight(r))
    /\ [](\A i \in 1..Len(posts) :
              \E r \in Waiters : /\ http[r].waiter.dm = <<posts[i].errorMsg>>
                                  /\ http[r].UserID = posts[i].UserID)
    /\ \A r \in 1..Cardinality(Tokens) :
           (r \in Waiters) ~> (r \in Waiters /\ http[r].waiter.pc = "done" /\ ~http[r].subscribed)

\* C24 witness: a goroutine has ended on the timeout and its direct message
\* was posted, while an event that came too late is left in its channel.
C24_Witness ==
    \E r \in Waiters :
        /\ http[r].waiter.pc = "done" /\ ~http[r].subscribed
        /\ http[r].waiter.timedOut
        /\ http[r].waiter.ch = <<<<>>>>
        /\ Len(posts) = 1 /\ posts[1].UserID = http[r].UserID

----------------------------------------------------------------------------
(* C25, C26, C27: the issue handlers.                                        *)

\* The events of a trace that are a response body.
WrittenBodies == {"error", "json"}

\* The events of a trace that changed GitHub or a post.
SideEffects == {"CreateComment", "Edit", "CreatePost", "SendEphemeralPost", "UpdatePost"}

\* The requests the issue handlers have been given.
IssueRequests == 1..Len(http)

\* C25: every request handler writes at most one response body per request.
\* After it wrote an API error it writes no success payload and no second
\* error and changes nothing more on GitHub or in a post; after the success
\* payload it writes no error.
C25_OneResponseBody ==
    \A r \in IssueRequests :
        \A i, j \in 1..Len(http[r].trace) :
            (i < j /\ http[r].trace[i].ev \in WrittenBodies)
                => http[r].trace[j].ev \notin WrittenBodies \cup SideEffects

\* The requests of closeOrReopenIssue whose comment GitHub did not create.
CommentFailed ==
    {r \in IssueRequests :
        /\ http[r].handler = "closeOrReopenIssue"
        /\ \E i \in 1..Len(http[r].trace) : http[r].trace[i].ev = "CreateComment failed"}

\* C26: in closeOrReopenIssue with a comment, the issue's state is changed on
\* GitHub only after the comment was created.  When creating the comment
\* fails the handler reports that error, makes no edit call (neither one
\* that succeeds nor one that fails) and does not update the post.
C26_NoEditAfterFailedComment ==
    \A r \in CommentFailed :
        /\ \E i \in 1..Len(http[r].trace) : http[r].trace[i].ev = "error"
        /\ \A i \in 1..Len(http[r].trace) :
               http[r].trace[i].ev \notin {"Edit", "Edit failed", "UpdatePost", "UpdatePost failed"}

\* The events of request r so far.
EventsOf(r) == {http[r].trace[i].ev : i \in 1..Len(http[r].trace)}

\* The requests of closeOrReopenIssue.
ToggleRequests == {r \in IssueRequests : http[r].handler = "closeOrReopenIssue"}

\* Request r has ended successfully: it wrote the issue and no error.
SuccessfulToggle(r) ==
    /\ r \in 1..Len(http') /\ http'[r].handler = "closeOrReopenIssue"
    /\ http'[r].pc = "done"
    /\ "json" \in {http'[r].trace[i].ev : i \in 1..Len(http'[r].trace)}
    /\ "error" \notin {http'[r].trace[i].ev : i \in 1..Len(http'[r].trace)}

\* The post's "status" property, from which the button is labelled.
StatusProperty(ps) == ps[1].Props.status

\* The property names the action opposite to the issue's state on GitHub.
LabelFitsState ==
    \/ github.state = "open" /\ StatusProperty(posts) = "Close"
    \/ github.state = "closed" /\ StatusProperty(posts) = "Reopen"

\* C27: the status toggle of the issue's post.  A step that ends a close
\* request successfully leaves the property "Reopen", one that ends a reopen
\* request successfully leaves it "Close"; a step in which the GitHub edit
\* call fails leaves the property unchanged; and whenever no close or reopen
\* request is being served and every one served so far either succeeded or
\* did not get its edit through, the property names the action opposite to
\* the issue's current GitHub state.
C27_StatusToggle ==
    /\ [][\A r \in 1..Len(http') :
              /\ (SuccessfulToggle(r) /\ http[r].pc # "done")
                     => StatusProperty(posts') =
                            IF http'[r].req.Status = "Close" THEN "Reopen" ELSE "Close"
              /\ (r \in ToggleRequests
                    /\ "Edit failed" \in {http'[r].trace[i].ev : i \in 1..Len(http'[r].trace)}
                    /\ "Edit failed" \notin EventsOf(r))
                     => StatusProperty(posts') = StatusProperty(posts)]_vars
    /\ []((\A r \in ToggleRequests :
              /\ http[r].pc \in {"done", "panicked"}
              /\ \/ "Edit" \notin EventsOf(r)
                 \/ "json" \in EventsOf(r) /\ "error" \notin EventsOf(r))
             => LabelFitsState)

====
